---- MODULE Spec2Model ----
(***************************************************************************)
(* Staff availability and scheduling-conflict engine                       *)
(* (src/src/lib/staff-availability-utils.ts) over the event / assignment   *)
(* store.                                                                  *)
(*                                                                         *)
(* Calendar dates ("YYYY-MM-DD" strings in the source) are day indices;    *)
(* a JavaScript Date is the number of minutes since 00:00 UTC of day 0.    *)
(* An absent (undefined / null) number or date is the empty sequence << >>,*)
(* a present one is <<v>>; an absent id is the empty string.               *)
(*                                                                         *)
(* tz is the host time zone, events and assignments are the tables, call   *)
(* and result the pending call of the engine and what it returned,         *)
(* lastWrite the last write to the tables where a specification records it.*)
(* The other variables are the states of the components around the engine, *)
(* each a record, Off while a specification does not run the component.    *)
(***************************************************************************)
EXTENDS Integers, Sequences, FiniteSets, TLC

VARIABLES tz, events, assignments, call, result, lastWrite,
          sessions, enrich, refresh, multiDayAssignments, backend,
          subscription, whatsapp

\* the engine and its store
engine == <<tz, events, assignments, call, result, lastWrite>>

\* the components of the application that use the engine or stand beside it
components == <<sessions, enrich, refresh, multiDayAssignments, backend,
                subscription, whatsapp>>

vars == <<engine, components>>

\* a component that is not mounted
Off == [state |-> "off"]

ComponentsOff ==
    /\ sessions = Off
    /\ enrich = Off
    /\ refresh = Off
    /\ multiDayAssignments = Off
    /\ backend = Off
    /\ subscription = Off
    /\ whatsapp = Off

----------------------------------------------------------------------------
(* Bounds of the model *)

MaxDay == 4

MaxTotalDays == 3

Days == 0..MaxDay

TotalDaysVals == (0 - 1)..MaxTotalDays

DateRanges == [startDate : Days, endDate : Days]

----------------------------------------------------------------------------
(* JavaScript Date as used by the engine *)

MinPerDay == 1440

\* Host time zones of the browser that runs the engine: one without and one
\* with daylight saving time.  In America/New_York the clocks go forward at
\* 07:00 UTC (02:00 local) of day 2.
Zones == {"Asia/Kolkata", "America/New_York"}

DstInstant == 2 * MinPerDay + 420

\* Offset of local time from UTC at the UTC instant t, in minutes.
LocalTZA(t) ==
    IF tz = "Asia/Kolkata" THEN 330
    ELSE IF t < DstInstant THEN 0 - 300 ELSE 0 - 240

\* ECMAScript LocalTime(t)
LocalTime(t) == t + LocalTZA(t)

\* ECMAScript UTC(t): a local time skipped by the transition is read with the
\* offset in force before it.
UTC(l) ==
    IF tz = "Asia/Kolkata" THEN l - 330
    ELSE IF l + 240 >= DstInstant THEN l + 240 ELSE l + 300

\* new Date("YYYY-MM-DD"): a date-only string is midnight UTC of that day.
NewDate(d) == d * MinPerDay

\* date.toISOString().split('T')[0]: the UTC calendar day of the instant.
ToISODate(t) == t \div MinPerDay

\* date.getDate(): the local calendar day of the instant.
GetDate(t) == LocalTime(t) \div MinPerDay

\* date.setDate(n): the local calendar day becomes n, the local time of day
\* is kept; the result is converted back to UTC.
SetDate(t, n) == UTC(n * MinPerDay + (LocalTime(t) % MinPerDay))

----------------------------------------------------------------------------
(* Pure functions of the engine *)

datesOverlapStrict(range1, range2) ==
    LET start1 == NewDate(range1.startDate)
        end1   == NewDate(range1.endDate)
        start2 == NewDate(range2.startDate)
        end2   == NewDate(range2.endDate)
    IN  \/ (start1 > start2 /\ start1 < end2)
        \/ (end1 > start2 /\ end1 < end2)
        \/ (start1 < start2 /\ end1 > end2)
        \/ (start2 < start1 /\ end2 > end1)

datesOverlapNoCover(range1, range2) ==
    LET start1 == NewDate(range1.startDate)
        end1   == NewDate(range1.endDate)
        start2 == NewDate(range2.startDate)
        end2   == NewDate(range2.endDate)
    IN  \/ (start1 >= start2 /\ start1 <= end2)
        \/ (end1 >= start2 /\ end1 <= end2)
        \/ (start2 <= start1 /\ end2 >= end1)

datesOverlap(range1, range2) ==
    LET start1 == NewDate(range1.startDate)
        end1   == NewDate(range1.endDate)
        start2 == NewDate(range2.startDate)
        end2   == NewDate(range2.endDate)
    IN  \/ (start1 >= start2 /\ start1 <= end2)
        \/ (end1 >= start2 /\ end1 <= end2)
        \/ (start1 <= start2 /\ end1 >= end2)
        \/ (start2 <= start1 /\ end2 >= end1)

\* eventInfo = [event_date : day, event_end_date : << >> or <<day>>,
\*              total_days : integer]
calculateEventDateRange(eventInfo) ==
    LET startDate == NewDate(eventInfo.event_date)
        endDate   ==
            IF eventInfo.event_end_date # << >>
            THEN NewDate(eventInfo.event_end_date[1])
            ELSE SetDate(startDate,
                         GetDate(startDate) + (eventInfo.total_days - 1))
    IN  [startDate |-> ToISODate(startDate), endDate |-> ToISODate(endDate)]

----------------------------------------------------------------------------
(* Calls of the pure functions *)

NoCall == [op |-> "none"]

NoResult == << >>

\* the last write to the store, where a specification records it
NoWrite == [kind |-> "none"]

EventInfos ==
    [event_date : Days,
     event_end_date : {<< >>} \cup {<<d>> : d \in Days},
     total_days : TotalDaysVals]

InitPure ==
    /\ tz \in Zones
    /\ events = << >>
    /\ assignments = << >>
    /\ call = NoCall
    /\ result = NoResult
    /\ lastWrite = NoWrite
    /\ ComponentsOff

CallDatesOverlap ==
    \E range1 \in DateRanges, range2 \in DateRanges :
        /\ call' = [op |-> "datesOverlap", range1 |-> range1, range2 |-> range2]
        /\ result' = datesOverlap(range1, range2)
        /\ UNCHANGED <<tz, events, assignments, lastWrite, components>>

CallCalculateEventDateRange ==
    \E eventInfo \in EventInfos :
        /\ call' = [op |-> "calculateEventDateRange", eventInfo |-> eventInfo]
        /\ result' = calculateEventDateRange(eventInfo)
        /\ UNCHANGED <<tz, events, assignments, lastWrite, components>>

NextOverlap == CallDatesOverlap

\* datesOverlap reads no local time
InitOverlap == InitPure /\ tz = "Asia/Kolkata"

SpecOverlap == InitOverlap /\ [][NextOverlap]_vars

NextRange == CallCalculateEventDateRange

SpecRange == InitPure /\ [][NextRange]_vars

----------------------------------------------------------------------------
(* The event / assignment store (tables events and event_staff_assignments) *)

MaxEventDay == 1

Firms == {"T1", "T2"}

EventIds == {"E1", "E2"}

Persons == {"P1", "P2"}

EventDays == 0..MaxEventDay

QueryDays == 0..(MaxEventDay + 1)

Title(e) == IF e = "E1" THEN "Wedding" ELSE "Pre-Wedding"

\* rows of table events, as far as the engine selects them
EventRows(e) ==
    [id : {e},
     title : {Title(e)},
     firm_id : Firms,
     event_date : EventDays,
     event_end_date : {<< >>},
     total_days : {<< >>, <<2>>}]

\* The assignment slots of the store in table order: the key columns of a row
\* of event_staff_assignments.
Slots ==
    << [event_id |-> "E1", role |-> "Photographer", day_number |-> 1],
       [event_id |-> "E2", role |-> "Cinematographer", day_number |-> 1] >>

\* The person columns of a row: exactly one of staff_id and freelancer_id is
\* set; NoRow marks a slot that holds no row.
NoRow == [staff_id |-> "", freelancer_id |-> ""]

PersonRefs ==
    {[staff_id |-> p, freelancer_id |-> ""] : p \in Persons}
        \cup {[staff_id |-> "", freelancer_id |-> p] : p \in Persons}

\* the row of slot i joined with its event (events!inner)
JoinedRow(i) ==
    [staff_id |-> assignments[i].staff_id,
     freelancer_id |-> assignments[i].freelancer_id,
     role |-> Slots[i].role,
     day_number |-> Slots[i].day_number,
     day_date |-> events[Slots[i].event_id].event_date,
     event_id |-> Slots[i].event_id,
     events |-> events[Slots[i].event_id]]

RECURSIVE TableFrom(_)
TableFrom(i) ==
    IF i > Len(Slots) THEN << >>
    ELSE IF assignments[i] = NoRow THEN TableFrom(i + 1)
    ELSE <<JoinedRow(i)>> \o TableFrom(i + 1)

\* the rows as they were before the last recorded write (a saved row was not
\* there, a deleted row still was)
StaleAssignments ==
    IF lastWrite.kind = "none" THEN assignments
    ELSE [assignments EXCEPT ![lastWrite.slot] =
              IF lastWrite.kind = "delete" THEN lastWrite.row ELSE NoRow]

RECURSIVE StaleTableFrom(_)
StaleTableFrom(i) ==
    IF i > Len(Slots) THEN << >>
    ELSE IF StaleAssignments[i] = NoRow THEN StaleTableFrom(i + 1)
    ELSE <<[JoinedRow(i) EXCEPT !.staff_id = StaleAssignments[i].staff_id,
                                !.freelancer_id = StaleAssignments[i].freelancer_id]>>
            \o StaleTableFrom(i + 1)

TableBeforeLastWrite == StaleTableFrom(1)

\* from('event_staff_assignments').select(..., events!inner(...))
Table == TableFrom(1)

FirmAndExcludeFilterNoExclude(row, excludeEventId, firmId) ==
    firmId # "" => row.events.firm_id = firmId

FirmAndExcludeFilterEqExcluded(row, excludeEventId, firmId) ==
    /\ (firmId # "" => row.events.firm_id = firmId)
    /\ (excludeEventId # "" => row.event_id = excludeEventId)

FirmAndExcludeFilterNoFirm(row, excludeEventId, firmId) ==
    excludeEventId # "" => row.event_id # excludeEventId

\* .eq('events.firm_id', firmId) when firmId is given,
\* .neq('event_id', excludeEventId) when excludeEventId is given
FirmAndExcludeFilter(row, excludeEventId, firmId) ==
    /\ (firmId # "" => row.events.firm_id = firmId)
    /\ (excludeEventId # "" => row.event_id # excludeEventId)

\* What awaiting a query yields: the rows, an error result, or an exception;
\* "none" when the call issues no query.
Outcomes == {"ok", "error", "throw"}

OutcomesOf(queries) == IF queries THEN Outcomes ELSE {"none"}

\* event.total_days || 1
OrOne(total_days) ==
    IF total_days = << >> \/ total_days = <<0>> THEN 1 ELSE total_days[1]

EventDateRangeOf(event) ==
    calculateEventDateRange(
        [event_date |-> event.event_date,
         event_end_date |-> event.event_end_date,
         total_days |-> OrOne(event.total_days)])

StaffAssignmentOf(assignment) ==
    [staff_id |-> assignment.staff_id,
     freelancer_id |-> assignment.freelancer_id,
     role |-> assignment.role,
     day_number |-> assignment.day_number,
     day_date |-> assignment.day_date,
     event_id |-> assignment.event_id]

getConflictingAssignmentsFailClosed(dateRange, excludeEventId, firmId, outcome) ==
    LET query == SelectSeq(Table,
            LAMBDA row : FirmAndExcludeFilter(row, excludeEventId, firmId))
        conflictingAssignments == SelectSeq(query,
            LAMBDA assignment :
                \/ outcome # "ok"
                \/ datesOverlap(dateRange, EventDateRangeOf(assignment.events)))
    IN  [i \in 1..Len(conflictingAssignments) |->
            StaffAssignmentOf(conflictingAssignments[i])]

getConflictingAssignments(dateRange, excludeEventId, firmId, outcome) ==
    IF outcome # "ok" THEN << >>
    ELSE
        LET query == SelectSeq(Table,
                LAMBDA row : FirmAndExcludeFilter(row, excludeEventId, firmId))
            conflictingAssignments == SelectSeq(query,
                LAMBDA assignment :
                    datesOverlap(dateRange, EventDateRangeOf(assignment.events)))
        IN  [i \in 1..Len(conflictingAssignments) |->
                StaffAssignmentOf(conflictingAssignments[i])]

isPersonAvailableNoneBooked(personId, dateRange, excludeEventId, firmId, outcome) ==
    IF personId = "" THEN TRUE
    ELSE Len(getConflictingAssignments(dateRange, excludeEventId, firmId, outcome)) = 0

isPersonAvailableEmptyBooked(personId, dateRange, excludeEventId, firmId, outcome) ==
    LET conflictingAssignments ==
            getConflictingAssignments(dateRange, excludeEventId, firmId, "ok")
    IN  ~ \E i \in 1..Len(conflictingAssignments) :
            \/ conflictingAssignments[i].staff_id = personId
            \/ conflictingAssignments[i].freelancer_id = personId

isPersonAvailableStaffOnly(personId, dateRange, excludeEventId, firmId, outcome) ==
    IF personId = "" THEN TRUE
    ELSE
        LET conflictingAssignments ==
                getConflictingAssignments(dateRange, excludeEventId, firmId, outcome)
        IN  ~ \E i \in 1..Len(conflictingAssignments) :
                conflictingAssignments[i].staff_id = personId

isPersonAvailable(personId, dateRange, excludeEventId, firmId, outcome) ==
    IF personId = "" THEN TRUE
    ELSE
        LET conflictingAssignments ==
                getConflictingAssignments(dateRange, excludeEventId, firmId, outcome)
        IN  ~ \E i \in 1..Len(conflictingAssignments) :
                \/ conflictingAssignments[i].staff_id = personId
                \/ conflictingAssignments[i].freelancer_id = personId

StaffIdOnly(assignment) == assignment.staff_id

\* assignment.staff_id || assignment.freelancer_id
StaffOrFreelancer(assignment) ==
    IF assignment.staff_id # "" THEN assignment.staff_id
    ELSE assignment.freelancer_id

filterAvailablePeopleSorted(people, dateRange, excludeEventId, firmId, outcome) ==
    IF Len(people) = 0 THEN << >>
    ELSE
        LET conflictingAssignments ==
                getConflictingAssignments(dateRange, excludeEventId, firmId, outcome)
            unavailableIds ==
                {StaffOrFreelancer(conflictingAssignments[i]) :
                    i \in 1..Len(conflictingAssignments)} \ {""}
            available == SelectSeq(people, LAMBDA person : person \notin unavailableIds)
        IN  SelectSeq(available, LAMBDA person : person = "P1")
                \o SelectSeq(available, LAMBDA person : person = "P2")
                \o SelectSeq(available, LAMBDA person : person = "P3")

\* people is the list of the persons' ids
filterAvailablePeople(people, dateRange, excludeEventId, firmId, outcome) ==
    IF Len(people) = 0 THEN << >>
    ELSE
        LET conflictingAssignments ==
                getConflictingAssignments(dateRange, excludeEventId, firmId, outcome)
            unavailableIds ==
                {StaffOrFreelancer(conflictingAssignments[i]) :
                    i \in 1..Len(conflictingAssignments)} \ {""}
        IN  SelectSeq(people, LAMBDA person : person \notin unavailableIds)

NoConflict == [hasConflict |-> FALSE, conflictingEvents |-> << >>]

ConflictItemOfAssignmentDay(assignment) ==
    [eventId |-> assignment.events.id,
     eventTitle |-> assignment.events.title,
     role |-> assignment.role,
     dateRange |-> [startDate |-> assignment.day_date,
                    endDate |-> assignment.day_date]]

ConflictItemOf(assignment) ==
    [eventId |-> assignment.events.id,
     eventTitle |-> assignment.events.title,
     role |-> assignment.role,
     dateRange |-> EventDateRangeOf(assignment.events)]

getPersonConflictDetails(personId, dateRange, excludeEventId, firmId, outcome) ==
    IF personId = "" THEN NoConflict
    ELSE IF outcome # "ok" THEN NoConflict
    ELSE
        LET query == SelectSeq(Table,
                LAMBDA row :
                    /\ (row.staff_id = personId \/ row.freelancer_id = personId)
                    /\ FirmAndExcludeFilter(row, excludeEventId, firmId))
            overlapping == SelectSeq(query,
                LAMBDA assignment :
                    datesOverlap(dateRange, EventDateRangeOf(assignment.events)))
            conflictingEvents ==
                [i \in 1..Len(overlapping) |-> ConflictItemOf(overlapping[i])]
        IN  [hasConflict |-> Len(conflictingEvents) > 0,
             conflictingEvents |-> conflictingEvents]

----------------------------------------------------------------------------
(* The engine over the store *)

QueryRanges == {r \in [startDate : QueryDays, endDate : QueryDays] :
                    r.startDate <= r.endDate}

PersonIds == Persons \cup {""}

\* excludeEventId: absent, a stored event, or an id that matches no event
ExcludeIds == EventIds \cup {"", "E9"}

\* candidate lists: P3 is a person without any assignment
PeopleLists == {<< >>, <<"P1", "P2", "P3">>, <<"P2", "P1", "P2">>}

\* Event E1 belongs to tenant T1 and has no total_days, event E2 belongs to
\* either tenant and lasts one or two days.
Init ==
    /\ tz = "Asia/Kolkata"
    /\ events \in {f \in [EventIds -> UNION {EventRows(e) : e \in EventIds}] :
                      /\ \A e \in EventIds : f[e].id = e
                      /\ f["E1"].firm_id = "T1"
                      /\ f["E1"].total_days = << >>}
    /\ assignments = [i \in 1..Len(Slots) |-> NoRow]
    /\ call = NoCall
    /\ result = NoResult
    /\ lastWrite = NoWrite
    /\ ComponentsOff

Idle == call = NoCall

\* the event form saves the dates of an event
SaveEventDates ==
    /\ Idle
    /\ \E e \in EventIds :
          \E row \in EventRows(e) :
              /\ row.firm_id = events[e].firm_id
              /\ e = "E1" => row.total_days = << >>
              /\ events' = [events EXCEPT ![e] = row]
    /\ UNCHANGED <<tz, assignments, call, result, lastWrite, components>>

\* the event form saves the person of an assignment slot
SaveAssignment ==
    /\ Idle
    /\ \E i \in 1..Len(Slots), ref \in PersonRefs :
          assignments' = [assignments EXCEPT ![i] = ref]
    /\ UNCHANGED <<tz, events, call, result, lastWrite, components>>

DeleteAssignment ==
    /\ Idle
    /\ \E i \in 1..Len(Slots) :
          /\ assignments[i] # NoRow
          /\ assignments' = [assignments EXCEPT ![i] = NoRow]
    /\ UNCHANGED <<tz, events, call, result, lastWrite, components>>

CallGetConflictingAssignmentsDeleting ==
    /\ Idle
    /\ \E dateRange \in QueryRanges, excludeEventId \in ExcludeIds,
          firmId \in Firms \cup {""}, outcome \in Outcomes :
          /\ call' = [op |-> "getConflictingAssignments", dateRange |-> dateRange,
                      excludeEventId |-> excludeEventId, firmId |-> firmId,
                      outcome |-> outcome]
          /\ result' = getConflictingAssignments(dateRange, excludeEventId,
                                                 firmId, outcome)
          /\ assignments' = [i \in 1..Len(Slots) |->
                                IF Slots[i].event_id = excludeEventId THEN NoRow
                                ELSE assignments[i]]
    /\ UNCHANGED <<tz, events, lastWrite, components>>

CallGetConflictingAssignments ==
    /\ Idle
    /\ \E dateRange \in QueryRanges, excludeEventId \in ExcludeIds,
          firmId \in Firms \cup {""}, outcome \in Outcomes :
          /\ call' = [op |-> "getConflictingAssignments", dateRange |-> dateRange,
                      excludeEventId |-> excludeEventId, firmId |-> firmId,
                      outcome |-> outcome]
          /\ result' = getConflictingAssignments(dateRange, excludeEventId,
                                                 firmId, outcome)
    /\ UNCHANGED <<tz, events, assignments, lastWrite, components>>

CallIsPersonAvailable ==
    /\ Idle
    /\ \E personId \in PersonIds, dateRange \in QueryRanges,
          excludeEventId \in ExcludeIds, firmId \in Firms \cup {""} :
      \E outcome \in OutcomesOf(personId # "") :
          /\ call' = [op |-> "isPersonAvailable", personId |-> personId,
                      dateRange |-> dateRange, excludeEventId |-> excludeEventId,
                      firmId |-> firmId, outcome |-> outcome]
          /\ result' = isPersonAvailable(personId, dateRange, excludeEventId,
                                         firmId, outcome)
    /\ UNCHANGED <<tz, events, assignments, lastWrite, components>>

CallFilterAvailablePeople ==
    /\ Idle
    /\ \E people \in PeopleLists, dateRange \in QueryRanges,
          excludeEventId \in ExcludeIds, firmId \in Firms \cup {""} :
      \E outcome \in OutcomesOf(Len(people) # 0) :
          /\ call' = [op |-> "filterAvailablePeople", people |-> people,
                      dateRange |-> dateRange, excludeEventId |-> excludeEventId,
                      firmId |-> firmId, outcome |-> outcome]
          /\ result' = filterAvailablePeople(people, dateRange, excludeEventId,
                                             firmId, outcome)
    /\ UNCHANGED <<tz, events, assignments, lastWrite, components>>

CallGetPersonConflictDetails ==
    /\ Idle
    /\ \E personId \in PersonIds, dateRange \in QueryRanges,
          excludeEventId \in ExcludeIds, firmId \in Firms \cup {""} :
      \E outcome \in OutcomesOf(personId # "") :
          /\ call' = [op |-> "getPersonConflictDetails", personId |-> personId,
                      dateRange |-> dateRange, excludeEventId |-> excludeEventId,
                      firmId |-> firmId, outcome |-> outcome]
          /\ result' = getPersonConflictDetails(personId, dateRange,
                                                excludeEventId, firmId, outcome)
    /\ UNCHANGED <<tz, events, assignments, lastWrite, components>>

\* the caller takes the result
Return ==
    /\ ~ Idle
    /\ call' = NoCall
    /\ result' = NoResult
    /\ UNCHANGED <<tz, events, assignments, lastWrite, components>>

Next ==
    \/ SaveEventDates
    \/ SaveAssignment
    \/ DeleteAssignment
    \/ CallGetConflictingAssignments
    \/ CallIsPersonAvailable
    \/ CallFilterAvailablePeople
    \/ CallGetPersonConflictDetails
    \/ Return

Spec == Init /\ [][Next]_vars

----------------------------------------------------------------------------
(* The availability hook, and the engine over one event of any date shape *)

\* useStaffAvailability({ ..., totalDays = 1, ... }): the default of the prop
TotalDaysProp(totalDays) == IF totalDays = << >> THEN 1 ELSE totalDays[1]

\* the range the hook derives from its props
HookDateRange(eventDate, eventEndDate, totalDays) ==
    calculateEventDateRange(
        [event_date |-> eventDate,
         event_end_date |-> eventEndDate,
         total_days |-> TotalDaysProp(totalDays)])

checkPersonAvailability(personId, eventDate, eventEndDate, totalDays, excludeEventId, currentFirmId, outcome) ==
    IF currentFirmId = "" \/ personId = "" THEN TRUE
    ELSE isPersonAvailable(personId,
                           HookDateRange(eventDate, eventEndDate, totalDays),
                           excludeEventId, currentFirmId, outcome)

\* rows of event E1 with every shape of dates the table can hold
RichEventRows ==
    [id : {"E1"},
     title : {Title("E1")},
     firm_id : {"T1"},
     event_date : Days,
     event_end_date : {<< >>} \cup {<<d>> : d \in Days},
     total_days : {<< >>} \cup {<<n>> : n \in TotalDaysVals}]

PlainEventRow(e) ==
    [id |-> e, title |-> Title(e), firm_id |-> "T1", event_date |-> 0,
     event_end_date |-> << >>, total_days |-> << >>]

\* the ranges asked for reach one day beyond the days of the stored event
DatesRanges ==
    {r \in [startDate : 0..(MaxDay + 1), endDate : 0..(MaxDay + 1)] :
        r.startDate <= r.endDate}

\* Person P1 is assigned to event E1; event E2 has no assignment.
InitDates ==
    /\ tz \in Zones
    /\ \E row \in RichEventRows :
          events = [e \in EventIds |-> IF e = "E1" THEN row ELSE PlainEventRow(e)]
    /\ assignments = [i \in 1..Len(Slots) |->
                         IF i = 1 THEN [staff_id |-> "P1", freelancer_id |-> ""]
                         ELSE NoRow]
    /\ call = NoCall
    /\ result = NoResult
    /\ lastWrite = NoWrite
    /\ ComponentsOff

SaveRichEventDates ==
    /\ Idle
    /\ \E row \in RichEventRows : events' = [events EXCEPT !["E1"] = row]
    /\ UNCHANGED <<tz, assignments, call, result, lastWrite, components>>

DatesGetConflictingAssignments ==
    /\ Idle
    /\ \E dateRange \in DatesRanges, excludeEventId \in {"", "E1"} :
          /\ call' = [op |-> "getConflictingAssignments", dateRange |-> dateRange,
                      excludeEventId |-> excludeEventId, firmId |-> "T1",
                      outcome |-> "ok"]
          /\ result' = getConflictingAssignments(dateRange, excludeEventId,
                                                 "T1", "ok")
    /\ UNCHANGED <<tz, events, assignments, lastWrite, components>>

DatesIsPersonAvailable ==
    /\ Idle
    /\ \E dateRange \in DatesRanges, excludeEventId \in {"", "E1"} :
          /\ call' = [op |-> "isPersonAvailable", personId |-> "P1",
                      dateRange |-> dateRange, excludeEventId |-> excludeEventId,
                      firmId |-> "T1", outcome |-> "ok"]
          /\ result' = isPersonAvailable("P1", dateRange, excludeEventId,
                                         "T1", "ok")
    /\ UNCHANGED <<tz, events, assignments, lastWrite, components>>

DatesGetPersonConflictDetails ==
    /\ Idle
    /\ \E dateRange \in DatesRanges, excludeEventId \in {"", "E1"} :
          /\ call' = [op |-> "getPersonConflictDetails", personId |-> "P1",
                      dateRange |-> dateRange, excludeEventId |-> excludeEventId,
                      firmId |-> "T1", outcome |-> "ok"]
          /\ result' = getPersonConflictDetails("P1", dateRange, excludeEventId,
                                                "T1", "ok")
    /\ UNCHANGED <<tz, events, assignments, lastWrite, components>>

\* the hook of the form of a new event, without eventEndDate
DatesCheckPersonAvailability ==
    /\ Idle
    /\ \E eventDate \in Days,
          totalDays \in {<< >>} \cup {<<n>> : n \in TotalDaysVals},
          outcome \in Outcomes :
          /\ call' = [op |-> "checkPersonAvailability", personId |-> "P1",
                      eventDate |-> eventDate, eventEndDate |-> << >>,
                      totalDays |-> totalDays,
                      dateRange |-> HookDateRange(eventDate, << >>, totalDays),
                      excludeEventId |-> "", firmId |-> "T1",
                      outcome |-> outcome]
          /\ result' = checkPersonAvailability("P1", eventDate, << >>, totalDays,
                                               "", "T1", outcome)
    /\ UNCHANGED <<tz, events, assignments, lastWrite, components>>

NextDates ==
    \/ SaveRichEventDates
    \/ DatesGetConflictingAssignments
    \/ DatesIsPersonAvailable
    \/ DatesGetPersonConflictDetails
    \/ DatesCheckPersonAvailability
    \/ Return

SpecDates == InitDates /\ [][NextDates]_vars

----------------------------------------------------------------------------
(* Availability checks between writes: the last write is recorded, and a
   check can be repeated with the arguments of the one before *)

\* Event E1 of tenant T1 starts on day 0; event E2 has any shape of Init.
InitHistory ==
    /\ Init
    /\ events["E1"].event_date = 0
    /\ events["E1"].total_days = << >>

SaveAssignmentRecorded ==
    /\ Idle
    /\ \E i \in 1..Len(Slots), ref \in PersonRefs :
          /\ assignments' = [assignments EXCEPT ![i] = ref]
          /\ lastWrite' = [kind |-> "save", slot |-> i, row |-> ref]
    /\ UNCHANGED <<tz, events, call, result, components>>

DeleteAssignmentRecorded ==
    /\ Idle
    /\ \E i \in 1..Len(Slots) :
          /\ assignments[i] # NoRow
          /\ assignments' = [assignments EXCEPT ![i] = NoRow]
          /\ lastWrite' = [kind |-> "delete", slot |-> i, row |-> assignments[i]]
    /\ UNCHANGED <<tz, events, call, result, components>>

IsPersonAvailableFirstDeleting ==
    /\ Idle
    /\ \E personId \in Persons, dateRange \in QueryRanges,
          excludeEventId \in {"", "E1"}, firmId \in Firms, outcome \in Outcomes :
          /\ call' = [op |-> "isPersonAvailable", personId |-> personId,
                      dateRange |-> dateRange, excludeEventId |-> excludeEventId,
                      firmId |-> firmId, outcome |-> outcome]
          /\ result' = isPersonAvailable(personId, dateRange, excludeEventId,
                                         firmId, outcome)
          /\ assignments' = [i \in 1..Len(Slots) |->
                                IF personId \in {assignments[i].staff_id,
                                                 assignments[i].freelancer_id}
                                THEN NoRow ELSE assignments[i]]
    /\ UNCHANGED <<tz, events, lastWrite, components>>

IsPersonAvailableFirst ==
    /\ Idle
    /\ \E personId \in Persons, dateRange \in QueryRanges,
          excludeEventId \in {"", "E1"}, firmId \in Firms, outcome \in Outcomes :
          /\ call' = [op |-> "isPersonAvailable", personId |-> personId,
                      dateRange |-> dateRange, excludeEventId |-> excludeEventId,
                      firmId |-> firmId, outcome |-> outcome]
          /\ result' = isPersonAvailable(personId, dateRange, excludeEventId,
                                         firmId, outcome)
    /\ UNCHANGED <<tz, events, assignments, lastWrite, components>>

\* the caller repeats the call with the same arguments; the query may end
\* differently
IsPersonAvailableAgain ==
    /\ call.op = "isPersonAvailable"
    /\ \E outcome \in Outcomes :
          /\ call' = [op |-> "isPersonAvailableAgain", personId |-> call.personId,
                      dateRange |-> call.dateRange,
                      excludeEventId |-> call.excludeEventId,
                      firmId |-> call.firmId, outcome |-> outcome,
                      firstOutcome |-> call.outcome, firstResult |-> result]
          /\ result' = isPersonAvailable(call.personId, call.dateRange,
                                         call.excludeEventId, call.firmId, outcome)
    /\ UNCHANGED <<tz, events, assignments, lastWrite, components>>

NextHistory ==
    \/ SaveAssignmentRecorded
    \/ DeleteAssignmentRecorded
    \/ IsPersonAvailableFirst
    \/ IsPersonAvailableAgain
    \/ Return

SpecHistory == InitHistory /\ [][NextHistory]_vars

----------------------------------------------------------------------------
(* Two browser sessions, each editing one event: check a person, then save *)

SessionIds == {"S1", "S2"}

\* session S1 edits event E1 (slot 1), session S2 event E2 (slot 2)
SlotOf(s) == IF s = "S1" THEN 1 ELSE 2

EventOf(s) == Slots[SlotOf(s)].event_id

notSessions == <<enrich, refresh, multiDayAssignments, backend, subscription, whatsapp>>

InitSessions ==
    /\ tz = "Asia/Kolkata"
    /\ events \in {f \in [EventIds -> UNION {EventRows(e) : e \in EventIds}] :
                      /\ \A e \in EventIds : f[e].id = e
                      /\ f["E1"].firm_id = "T1"}
    /\ assignments = [i \in 1..Len(Slots) |-> NoRow]
    /\ call = NoCall
    /\ result = NoResult
    /\ lastWrite = NoWrite
    /\ sessions = [s \in SessionIds |-> [pc |-> "idle"]]
    /\ enrich = Off
    /\ refresh = Off
    /\ multiDayAssignments = Off
    /\ backend = Off
    /\ subscription = Off
    /\ whatsapp = Off

\* the form of session s asks the hook whether the person can be offered
SessionCheck(s) ==
    /\ sessions[s].pc = "idle"
    /\ \E personId \in Persons, outcome \in Outcomes :
          LET event == events[EventOf(s)]
          IN  sessions' = [sessions EXCEPT ![s] =
                  [pc |-> "checked", personId |-> personId, outcome |-> outcome,
                   saw |-> checkPersonAvailability(personId, event.event_date,
                               event.event_end_date, event.total_days,
                               event.id, event.firm_id, outcome)]]
    /\ UNCHANGED <<engine, notSessions>>

SessionSaveCheckAndSet(s) ==
    /\ sessions[s].pc = "checked"
    /\ sessions[s].saw
    /\ LET event == events[EventOf(s)]
       IN  checkPersonAvailability(sessions[s].personId, event.event_date,
               event.event_end_date, event.total_days, event.id, event.firm_id,
               "ok")
    /\ assignments' = [assignments EXCEPT ![SlotOf(s)] =
                          [staff_id |-> sessions[s].personId, freelancer_id |-> ""]]
    /\ sessions' = [sessions EXCEPT ![s].pc = "saved"]
    /\ UNCHANGED <<tz, events, call, result, lastWrite, notSessions>>

\* the user picks the person offered and saves the assignment
SessionSave(s) ==
    /\ sessions[s].pc = "checked"
    /\ sessions[s].saw
    /\ assignments' = [assignments EXCEPT ![SlotOf(s)] =
                          [staff_id |-> sessions[s].personId, freelancer_id |-> ""]]
    /\ sessions' = [sessions EXCEPT ![s].pc = "saved"]
    /\ UNCHANGED <<tz, events, call, result, lastWrite, notSessions>>

\* the user leaves the form, or opens it again
SessionClose(s) ==
    /\ sessions[s].pc # "idle"
    /\ sessions' = [sessions EXCEPT ![s] = [pc |-> "idle"]]
    /\ UNCHANGED <<engine, notSessions>>

NextSessions ==
    \E s \in SessionIds :
        \/ SessionCheck(s)
        \/ SessionSave(s)
        \/ SessionClose(s)

SpecSessions == InitSessions /\ [][NextSessions]_vars

----------------------------------------------------------------------------
(* The hook's lists of selectable staff *)

getAvailableStaff(staff, eventDate, eventEndDate, totalDays, excludeEventId, currentFirmId, outcome) ==
    IF eventDate = << >> \/ currentFirmId = "" \/ Len(staff) = 0 THEN staff
    ELSE filterAvailablePeople(staff,
                               HookDateRange(eventDate[1], eventEndDate, totalDays),
                               excludeEventId, currentFirmId, outcome)

PrependSelectionUnchecked(staff, availableStaff, currentSelection) ==
    IF currentSelection # ""
            /\ ~ \E i \in 1..Len(availableStaff) : availableStaff[i] = currentSelection
    THEN <<currentSelection>> \o availableStaff
    ELSE availableStaff

\* the part of getAvailableStaffForRole after getAvailableStaff has answered
PrependSelection(staff, availableStaff, currentSelection) ==
    IF currentSelection # ""
            /\ (\E i \in 1..Len(staff) : staff[i] = currentSelection)
            /\ ~ \E i \in 1..Len(availableStaff) : availableStaff[i] = currentSelection
    THEN <<currentSelection>> \o availableStaff
    ELSE availableStaff

\* staff lists without duplicates; P3 and P4 have no assignment
StaffLists == {<< >>, <<"P1", "P2", "P3">>, <<"P2", "P1">>, <<"P3">>}

Selections == {"", "P1", "P2", "P3", "P4"}

notHook == <<sessions, enrich, refresh, multiDayAssignments, backend, subscription, whatsapp>>

\* any store of events and assignments
InitRole ==
    /\ tz = "Asia/Kolkata"
    /\ events \in {f \in [EventIds -> UNION {EventRows(e) : e \in EventIds}] :
                      /\ \A e \in EventIds : f[e].id = e
                      /\ f["E1"].firm_id = "T1"}
    /\ assignments \in [1..Len(Slots) -> PersonRefs \cup {NoRow}]
    /\ call = NoCall
    /\ result = NoResult
    /\ lastWrite = NoWrite
    /\ ComponentsOff

CallGetAvailableStaffForRole ==
    /\ Idle
    /\ \E staff \in StaffLists, currentSelection \in Selections,
          eventDate \in {<< >>} \cup {<<d>> : d \in EventDays},
          excludeEventId \in {"", "E1"} :
      \E outcome \in OutcomesOf(eventDate # << >> /\ Len(staff) # 0) :
          LET availableStaff ==
                  getAvailableStaff(staff, eventDate, << >>, << >>,
                                    excludeEventId, "T1", outcome)
          IN  /\ call' = [op |-> "getAvailableStaffForRole", staff |-> staff,
                          currentSelection |-> currentSelection,
                          eventDate |-> eventDate,
                          excludeEventId |-> excludeEventId, firmId |-> "T1",
                          outcome |-> outcome, availableStaff |-> availableStaff]
              /\ result' = PrependSelection(staff, availableStaff, currentSelection)
    /\ UNCHANGED <<tz, events, assignments, lastWrite, notHook>>

NextRole ==
    \/ CallGetAvailableStaffForRole
    \/ Return

SpecRole == InitRole /\ [][NextRole]_vars

----------------------------------------------------------------------------
(* filterAvailablePeople and isPersonAvailable over rows of any shape *)

\* the person columns of a row as the table can hold them: one of them set,
\* or both
AnyPersonRefs ==
    PersonRefs \cup {[staff_id |-> p, freelancer_id |-> q] : p, q \in Persons}

InitCompare ==
    /\ tz = "Asia/Kolkata"
    /\ events \in {f \in [EventIds -> UNION {EventRows(e) : e \in EventIds}] :
                      /\ \A e \in EventIds : f[e].id = e
                      /\ f["E1"].firm_id = "T1"
                      /\ f["E1"].total_days = << >>}
    /\ assignments \in [1..Len(Slots) -> AnyPersonRefs \cup {NoRow}]
    /\ call = NoCall
    /\ result = NoResult
    /\ lastWrite = NoWrite
    /\ ComponentsOff

CompareFilterAvailablePeople ==
    /\ Idle
    /\ \E people \in PeopleLists \ {<< >>}, dateRange \in QueryRanges,
          excludeEventId \in {"", "E1"} :
          /\ call' = [op |-> "filterAvailablePeople", people |-> people,
                      dateRange |-> dateRange, excludeEventId |-> excludeEventId,
                      firmId |-> "T1", outcome |-> "ok"]
          /\ result' = filterAvailablePeople(people, dateRange, excludeEventId,
                                             "T1", "ok")
    /\ UNCHANGED <<tz, events, assignments, lastWrite, components>>

\* isPersonAvailable for a person of the list, with the arguments of the
\* filterAvailablePeople call before
CompareIsPersonAvailable ==
    /\ call.op = "filterAvailablePeople"
    /\ \E i \in 1..Len(call.people) :
          /\ call' = [op |-> "isPersonAvailable", personId |-> call.people[i],
                      people |-> call.people, dateRange |-> call.dateRange,
                      excludeEventId |-> call.excludeEventId,
                      firmId |-> call.firmId, outcome |-> "ok",
                      filtered |-> result]
          /\ result' = isPersonAvailable(call.people[i], call.dateRange,
                                         call.excludeEventId, call.firmId, "ok")
    /\ UNCHANGED <<tz, events, assignments, lastWrite, components>>

NextCompare ==
    \/ CompareFilterAvailablePeople
    \/ CompareIsPersonAvailable
    \/ Return

SpecCompare == InitCompare /\ [][NextCompare]_vars

----------------------------------------------------------------------------
(* enrichStaffWithAvailability: two reads of the store per person, while the
   event form of another session writes *)

getConflictDetails(personId, eventDate, eventEndDate, totalDays, excludeEventId, currentFirmId, outcome) ==
    IF currentFirmId = "" \/ personId = "" THEN NoConflict
    ELSE getPersonConflictDetails(personId,
                                  HookDateRange(eventDate, eventEndDate, totalDays),
                                  excludeEventId, currentFirmId, outcome)

notEnrich == <<sessions, refresh, multiDayAssignments, backend, subscription, whatsapp>>

\* the hook is mounted with or without an event date, for tenant T1
InitEnrich ==
    /\ tz = "Asia/Kolkata"
    /\ events \in {f \in [EventIds -> UNION {EventRows(e) : e \in EventIds}] :
                      /\ \A e \in EventIds : f[e].id = e
                      /\ f["E1"].firm_id = "T1"
                      /\ f["E1"].total_days = << >>}
    /\ assignments = [i \in 1..Len(Slots) |-> NoRow]
    /\ call = NoCall
    /\ result = NoResult
    /\ lastWrite = NoWrite
    /\ \E eventDate \in {<< >>} \cup {<<d>> : d \in EventDays} :
          enrich = [pc |-> "idle", eventDate |-> eventDate]
    /\ sessions = Off
    /\ refresh = Off
    /\ multiDayAssignments = Off
    /\ backend = Off
    /\ subscription = Off
    /\ whatsapp = Off

\* const isAvailable = await checkPersonAvailability(person.id)
EnrichCheckPersonAvailability ==
    /\ enrich.pc = "idle"
    /\ \E personId \in Persons :
          IF enrich.eventDate = << >>
          THEN enrich' = [pc |-> "done", eventDate |-> enrich.eventDate,
                          id |-> personId, isAvailable |-> TRUE,
                          conflicts |-> << >>, outcome |-> "none",
                          outcome2 |-> "none"]
          ELSE \E outcome \in Outcomes :
                  enrich' = [pc |-> "checked", eventDate |-> enrich.eventDate,
                             id |-> personId, outcome |-> outcome,
                             isAvailable |->
                                 checkPersonAvailability(personId,
                                     enrich.eventDate[1], << >>, << >>, "",
                                     "T1", outcome)]
    /\ UNCHANGED <<engine, notEnrich>>

\* const conflicts = isAvailable ? undefined : await getConflictDetails(person.id)
EnrichGetConflictDetails ==
    /\ enrich.pc = "checked"
    /\ IF enrich.isAvailable
       THEN enrich' = [pc |-> "done", eventDate |-> enrich.eventDate,
                       id |-> enrich.id, isAvailable |-> TRUE,
                       outcome |-> enrich.outcome, outcome2 |-> "none",
                       conflicts |-> << >>]
       ELSE \E outcome \in Outcomes :
               enrich' = [pc |-> "done", eventDate |-> enrich.eventDate,
                          id |-> enrich.id, isAvailable |-> FALSE,
                          outcome |-> enrich.outcome, outcome2 |-> outcome,
                          conflicts |->
                              <<getConflictDetails(enrich.id, enrich.eventDate[1],
                                    << >>, << >>, "", "T1", outcome)>>]
    /\ UNCHANGED <<engine, notEnrich>>

\* the entry is returned; the list is enriched again later
EnrichReturn ==
    /\ enrich.pc = "done"
    /\ enrich' = [pc |-> "idle", eventDate |-> enrich.eventDate]
    /\ UNCHANGED <<engine, notEnrich>>

NextEnrich ==
    \/ SaveAssignmentRecorded
    \/ DeleteAssignmentRecorded
    \/ EnrichCheckPersonAvailability
    \/ EnrichGetConflictDetails
    \/ EnrichReturn

SpecEnrich == InitEnrich /\ [][NextEnrich]_vars

----------------------------------------------------------------------------
(* The refresh of the form's available lists *)

MaxRefreshes == 3

\* the staff pools handed to the form; the pools of the other three roles
\* are filtered and set by the same statements
Pools == [photographers |-> <<"P1", "P2">>, dronePilots |-> <<"P2", "P3">>]

notRefresh == <<sessions, enrich, multiDayAssignments, backend, subscription, whatsapp>>

\* await Promise.all([filterAvailablePeople(photographers, ...), ...])
FilteredPools(eventDate, outcome) ==
    LET dateRange == calculateEventDateRange(
            [event_date |-> eventDate, event_end_date |-> << >>, total_days |-> 1])
    IN  [photographers |->
             filterAvailablePeople(Pools.photographers, dateRange, "", "T1", outcome),
         dronePilots |->
             filterAvailablePeople(Pools.dronePilots, dateRange, "", "T1", outcome)]

\* the form is mounted without an event date: the lists are the pools
InitRefresh ==
    /\ tz = "Asia/Kolkata"
    /\ events \in {f \in [EventIds -> UNION {EventRows(e) : e \in EventIds}] :
                      /\ \A e \in EventIds : f[e].id = e
                      /\ f["E1"].firm_id = "T1"
                      /\ f["E1"].total_days = << >>}
    /\ assignments \in [1..Len(Slots) -> PersonRefs \cup {NoRow}]
    /\ call = NoCall
    /\ result = NoResult
    /\ lastWrite = NoWrite
    /\ refresh = [eventDate |-> << >>, issued |-> 0, inFlight |-> {},
                  available |-> Pools, isLoadingAvailability |-> FALSE]
    /\ sessions = Off
    /\ enrich = Off
    /\ multiDayAssignments = Off
    /\ backend = Off
    /\ subscription = Off
    /\ whatsapp = Off

\* the event date is cleared: the effect sets the lists to the pools
RefreshWithoutDate ==
    /\ refresh.eventDate # << >>
    /\ refresh' = [refresh EXCEPT !.eventDate = << >>, !.available = Pools]
    /\ UNCHANGED <<engine, notRefresh>>

\* the event date changes: the effect starts updateAvailableStaff, which
\* awaits the store
RefreshStart ==
    /\ refresh.issued < MaxRefreshes
    /\ \E d \in EventDays :
          /\ refresh.eventDate # <<d>>
          /\ refresh' = [refresh EXCEPT
                 !.eventDate = <<d>>,
                 !.issued = @ + 1,
                 !.inFlight = @ \cup {[n |-> refresh.issued + 1, eventDate |-> d]},
                 !.isLoadingAvailability = TRUE]
    /\ UNCHANGED <<engine, notRefresh>>

\* the store answers a started updateAvailableStaff, in any order
RefreshComplete(r) ==
    /\ r \in refresh.inFlight
    /\ \E outcome \in Outcomes :
          refresh' = [refresh EXCEPT
              !.inFlight = @ \ {r},
              !.available = FilteredPools(r.eventDate, outcome),
              !.isLoadingAvailability = FALSE]
    /\ UNCHANGED <<engine, notRefresh>>

NextRefresh ==
    \/ RefreshWithoutDate
    \/ RefreshStart
    \/ \E r \in [n : 1..MaxRefreshes, eventDate : EventDays] : RefreshComplete(r)

SpecRefresh == InitRefresh /\ [][NextRefresh]_vars

----------------------------------------------------------------------------
(* The slots of the event staff-assignment form *)

MaxSlots == 2

FormDays == 2

ListFields == {"photographer_ids", "cinematographer_ids", "same_day_editor_ids"}

FormRoles == {"photographer", "cinematographer", "same_day_editor", "drone_pilot"}

FieldOfRole(role) ==
    CASE role = "photographer" -> "photographer_ids"
      [] role = "cinematographer" -> "cinematographer_ids"
      [] role = "same_day_editor" -> "same_day_editor_ids"
      [] role = "drone_pilot" -> "drone_pilot_id"

\* the pools of every role hold the same persons, all of them available
FormPool == <<"P1", "P2">>

\* the legacy list of same-day editors of the event
LegacySameDayEditors == <<"P2">>

notForm == <<sessions, enrich, refresh, backend, subscription, whatsapp>>

\* array.includes(x)
Includes(array, x) == \E i \in 1..Len(array) : array[i] = x

\* the copy of the array after splice(slotIndex, 1); slots count from 1 here
WithoutSlot(array, slotIndex) ==
    [i \in 1..(Len(array) - 1) |-> IF i < slotIndex THEN array[i] ELSE array[i + 1]]

\* isPersonAvailable of the form; currentSlotIndex is 0 when the call passes none
isPersonAvailableInForm(days, legacySameDayEditors, personId, currentDayIndex, currentRole, currentSlotIndex) ==
    /\ \A i \in 1..Len(days) :
          LET assignment == days[i]
          IN  IF i = currentDayIndex /\ currentRole = "photographer" /\ currentSlotIndex # 0
              THEN ~ Includes(WithoutSlot(assignment.photographer_ids, currentSlotIndex), personId)
              ELSE IF i = currentDayIndex /\ currentRole = "cinematographer" /\ currentSlotIndex # 0
              THEN ~ Includes(WithoutSlot(assignment.cinematographer_ids, currentSlotIndex), personId)
              ELSE IF i = currentDayIndex /\ currentRole = "same_day_editor" /\ currentSlotIndex # 0
              THEN ~ Includes(WithoutSlot(assignment.same_day_editor_ids, currentSlotIndex), personId)
              ELSE ~ \/ Includes(assignment.photographer_ids, personId)
                     \/ Includes(assignment.cinematographer_ids, personId)
                     \/ assignment.drone_pilot_id = personId
                     \/ Includes(assignment.same_day_editor_ids, personId)
    /\ ~ Includes(legacySameDayEditors, personId)

\* the selection of a slot; slotIndex is 0 for the drone pilot
SelectionOf(days, dayIndex, role, slotIndex) ==
    IF role = "drone_pilot" THEN days[dayIndex].drone_pilot_id
    ELSE days[dayIndex][FieldOfRole(role)][slotIndex]

\* staffOptions of the select of a slot
staffOptions(days, legacySameDayEditors, dayIndex, role, slotIndex) ==
    LET currentSelection == SelectionOf(days, dayIndex, role, slotIndex)
    IN  SelectSeq(PrependSelection(FormPool, FormPool, currentSelection),
            LAMBDA person :
                \/ person = currentSelection
                \/ isPersonAvailableInForm(days, legacySameDayEditors, person,
                                           dayIndex, role, slotIndex))

\* the slots the form renders
FormSlots(days) ==
    UNION {{[dayIndex |-> d, role |-> "drone_pilot", slotIndex |-> 0]}
           \cup {[dayIndex |-> d, role |-> r, slotIndex |-> k] :
                    r \in FormRoles \ {"drone_pilot"}, k \in 1..MaxSlots}
           : d \in 1..Len(days)}
    \ {s \in [dayIndex : 1..Len(days), role : FormRoles \ {"drone_pilot"}, slotIndex : 1..MaxSlots] :
          s.slotIndex > Len(days[s.dayIndex][FieldOfRole(s.role)])}

EmptyDay ==
    [photographer_ids |-> <<"">>, cinematographer_ids |-> <<"">>,
     drone_pilot_id |-> "", same_day_editor_ids |-> <<"">>]

\* a new event of FormDays days with one empty slot per role and day
InitForm ==
    /\ tz = "Asia/Kolkata"
    /\ events = [e \in EventIds |->
                    [id |-> e, title |-> IF e = "E1" THEN "Wedding" ELSE "Pre-Wedding",
                     firm_id |-> "T1", event_date |-> 0,
                     event_end_date |-> << >>, total_days |-> << >>]]
    /\ assignments = [i \in 1..Len(Slots) |-> NoRow]
    /\ call = NoCall
    /\ result = NoResult
    /\ lastWrite = NoWrite
    /\ multiDayAssignments = [days |-> [d \in 1..FormDays |-> EmptyDay],
                              legacySameDayEditors |-> LegacySameDayEditors]
    /\ sessions = Off
    /\ enrich = Off
    /\ refresh = Off
    /\ backend = Off
    /\ subscription = Off
    /\ whatsapp = Off

\* onUpdateStaffAssignment(dayIndex, field, slotIndex, value): the user picks
\* one of the options of the slot, or clears it
UpdateStaffAssignment(s) ==
    /\ s \in FormSlots(multiDayAssignments.days)
    /\ \E value \in {FormPool[i] : i \in 1..Len(FormPool)} \cup {""} :
          /\ value # "" =>
                Includes(staffOptions(multiDayAssignments.days,
                                      multiDayAssignments.legacySameDayEditors,
                                      s.dayIndex, s.role, s.slotIndex), value)
          /\ value # SelectionOf(multiDayAssignments.days, s.dayIndex, s.role, s.slotIndex)
          /\ multiDayAssignments' =
                IF s.role = "drone_pilot"
                THEN [multiDayAssignments EXCEPT
                          !.days[s.dayIndex].drone_pilot_id = value]
                ELSE [multiDayAssignments EXCEPT
                          !.days[s.dayIndex][FieldOfRole(s.role)][s.slotIndex] = value]
    /\ UNCHANGED <<engine, notForm>>

\* onAddStaffSlot(dayIndex, field)
AddStaffSlot(dayIndex, field) ==
    /\ Len(multiDayAssignments.days[dayIndex][field]) < MaxSlots
    /\ multiDayAssignments' =
          [multiDayAssignments EXCEPT !.days[dayIndex][field] = Append(@, "")]
    /\ UNCHANGED <<engine, notForm>>

\* onRemoveStaffSlot(dayIndex, field, slotIndex), offered while the list has
\* more than one slot
RemoveStaffSlot(dayIndex, field, slotIndex) ==
    /\ Len(multiDayAssignments.days[dayIndex][field]) > 1
    /\ slotIndex \in 1..Len(multiDayAssignments.days[dayIndex][field])
    /\ multiDayAssignments' =
          [multiDayAssignments EXCEPT
              !.days[dayIndex][field] = WithoutSlot(@, slotIndex)]
    /\ UNCHANGED <<engine, notForm>>

NextForm ==
    \/ \E s \in [dayIndex : 1..FormDays, role : FormRoles, slotIndex : 0..MaxSlots] :
          UpdateStaffAssignment(s)
    \/ \E dayIndex \in 1..FormDays, field \in ListFields :
          AddStaffSlot(dayIndex, field)
    \/ \E dayIndex \in 1..FormDays, field \in ListFields, slotIndex \in 1..MaxSlots :
          RemoveStaffSlot(dayIndex, field, slotIndex)

SpecForm == InitForm /\ [][NextForm]_vars

----------------------------------------------------------------------------
(* The paginated list of useBackendFilters *)

\* changes of the search, filter, sort or page-size settings in a behaviour
MaxChanges == 2

\* the table holds the full pages 0..(LastPage - 1) and the short page LastPage
LastPage == 1

\* loadMore is not followed beyond this page
MaxPage == 2

notBackend == <<sessions, enrich, refresh, multiDayAssignments, subscription, whatsapp>>

Fetches == [settings : 0..MaxChanges, page : 0..MaxPage, append : BOOLEAN]

\* the rows the store returns for a page, one entry standing for the rows of
\* the page
PageRows(fetch) ==
    IF fetch.page <= LastPage
    THEN <<[settings |-> fetch.settings, page |-> fetch.page]>>
    ELSE << >>

\* (result?.length || 0) < pageSize
ShortPage(fetch) == fetch.page >= LastPage

\* the hook is mounted: the fetch effect has issued fetchData(false)
InitBackend ==
    /\ tz = "Asia/Kolkata"
    /\ events = [e \in EventIds |->
                    [id |-> e, title |-> IF e = "E1" THEN "Wedding" ELSE "Pre-Wedding",
                     firm_id |-> "T1", event_date |-> 0,
                     event_end_date |-> << >>, total_days |-> << >>]]
    /\ assignments = [i \in 1..Len(Slots) |-> NoRow]
    /\ call = NoCall
    /\ result = NoResult
    /\ lastWrite = NoWrite
    /\ backend = [settings |-> 0, currentPage |-> 0, data |-> << >>,
                  loading |-> TRUE, allDataLoaded |-> FALSE,
                  inFlight |-> {[settings |-> 0, page |-> 0, append |-> FALSE]}]
    /\ sessions = Off
    /\ enrich = Off
    /\ refresh = Off
    /\ multiDayAssignments = Off
    /\ subscription = Off
    /\ whatsapp = Off

\* the fetches the fetch effect issues after the settings changed: one in the
\* render that still has the old page, one after resetPagination took effect
FetchesAfterReset(settings, currentPage) ==
    {[settings |-> settings, page |-> currentPage, append |-> currentPage # 0],
     [settings |-> settings, page |-> 0, append |-> FALSE]}

\* search, filters or sort change: resetPagination and the fetch effect
ChangeFilters ==
    /\ backend.settings < MaxChanges
    /\ backend' = [backend EXCEPT
           !.settings = @ + 1,
           !.currentPage = 0,
           !.allDataLoaded = FALSE,
           !.loading = TRUE,
           !.inFlight = @ \cup FetchesAfterReset(backend.settings + 1,
                                                 backend.currentPage)]
    /\ UNCHANGED <<engine, notBackend>>

\* the page size changes: the page-size effect and the fetch effect
ChangePageSize ==
    /\ backend.settings < MaxChanges
    /\ backend' = [backend EXCEPT
           !.settings = @ + 1,
           !.currentPage = 0,
           !.data = << >>,
           !.allDataLoaded = FALSE,
           !.loading = TRUE,
           !.inFlight = @ \cup FetchesAfterReset(backend.settings + 1,
                                                 backend.currentPage)]
    /\ UNCHANGED <<engine, notBackend>>

\* loadMore, and the fetch effect issuing fetchData(true) for the next page
loadMore ==
    /\ ~ backend.allDataLoaded
    /\ ~ backend.loading
    /\ backend.currentPage < MaxPage
    /\ backend' = [backend EXCEPT
           !.currentPage = @ + 1,
           !.inFlight = @ \cup {[settings |-> backend.settings,
                                 page |-> backend.currentPage + 1,
                                 append |-> TRUE]}]
    /\ UNCHANGED <<engine, notBackend>>

\* the store answers a fetchData, in any order
fetchData(fetch, outcome) ==
    /\ fetch \in backend.inFlight
    /\ IF outcome = "ok"
       THEN backend' = [backend EXCEPT
                !.inFlight = @ \ {fetch},
                !.data = IF fetch.append THEN @ \o PageRows(fetch) ELSE PageRows(fetch),
                !.allDataLoaded = ShortPage(fetch),
                !.loading = FALSE]
       ELSE backend' = [backend EXCEPT
                !.inFlight = @ \ {fetch},
                !.data = IF fetch.append THEN @ ELSE << >>,
                !.loading = FALSE]
    /\ UNCHANGED <<engine, notBackend>>

NextBackend ==
    \/ ChangeFilters
    \/ ChangePageSize
    \/ loadMore
    \/ \E fetch \in Fetches, outcome \in {"ok", "error"} : fetchData(fetch, outcome)

SpecBackend == InitBackend /\ [][NextBackend]_vars

----------------------------------------------------------------------------
(* The subscription status of a firm *)

\* calls of checkSubscription in a behaviour
MaxChecks == 3

notSubscription == <<sessions, enrich, refresh, multiDayAssignments, backend, whatsapp>>

Null == [null |-> TRUE]

\* what check-firm-subscription can answer
SubscriptionStatuses ==
    {[status |-> "trial", planType |-> "none", isActive |-> TRUE, subscribedOnce |-> FALSE],
     [status |-> "active", planType |-> "monthly", isActive |-> TRUE, subscribedOnce |-> TRUE],
     [status |-> "expired", planType |-> "none", isActive |-> FALSE, subscribedOnce |-> FALSE],
     [status |-> "expired", planType |-> "monthly", isActive |-> FALSE, subscribedOnce |-> TRUE]}

\* the state set when a foreground check fails
Fallback ==
    [status |-> "active", planType |-> "fallback", isActive |-> TRUE, subscribedOnce |-> TRUE]

\* subscription?.isActive || false
canWrite(s) == IF s = Null THEN FALSE ELSE s.isActive

\* the hook before its effect runs, for a user and a firm that may be absent
InitSubscription ==
    /\ tz = "Asia/Kolkata"
    /\ events = [e \in EventIds |->
                    [id |-> e, title |-> IF e = "E1" THEN "Wedding" ELSE "Pre-Wedding",
                     firm_id |-> "T1", event_date |-> 0,
                     event_end_date |-> << >>, total_days |-> << >>]]
    /\ assignments = [i \in 1..Len(Slots) |-> NoRow]
    /\ call = NoCall
    /\ result = NoResult
    /\ lastWrite = NoWrite
    /\ \E user \in BOOLEAN, firmId \in {"", "T1"} :
          subscription = [user |-> user, firmId |-> firmId, subscription |-> Null,
                          loading |-> FALSE, error |-> << >>, initialized |-> FALSE,
                          checks |-> 0, inFlight |-> {},
                          last |-> [step |-> "none"]]
    /\ sessions = Off
    /\ enrich = Off
    /\ refresh = Off
    /\ multiDayAssignments = Off
    /\ backend = Off
    /\ whatsapp = Off

\* the part of checkSubscription before the await, for the hook's user and
\* firm and for the user and firm of a later render
CheckSubscriptionStart(isBackground, user, firmId) ==
    /\ subscription.checks < MaxChecks
    /\ IF ~ user \/ firmId = ""
       THEN subscription' = [subscription EXCEPT
                !.user = user, !.firmId = firmId,
                !.checks = @ + 1,
                !.subscription = Null,
                !.initialized = TRUE,
                !.last = [step |-> "absent"]]
       ELSE subscription' = [subscription EXCEPT
                !.user = user, !.firmId = firmId,
                !.checks = @ + 1,
                !.loading = IF isBackground THEN @ ELSE TRUE,
                !.error = << >>,
                !.inFlight = @ \cup {[n |-> subscription.checks + 1,
                                      isBackground |-> isBackground]},
                !.last = [step |-> "started"]]
    /\ UNCHANGED <<engine, notSubscription>>

\* the effect runs checkSubscription(false) on mount and when the user or
\* the firm changes
CheckOnRender ==
    \E user \in BOOLEAN, firmId \in {"", "T1"} :
        /\ subscription.checks = 0
              \/ user # subscription.user \/ firmId # subscription.firmId
        /\ CheckSubscriptionStart(FALSE, user, firmId)

\* a caller runs checkSubscription, in the foreground or in the background
CheckOnDemand ==
    \E isBackground \in BOOLEAN :
        /\ subscription.checks > 0
        /\ CheckSubscriptionStart(isBackground, subscription.user, subscription.firmId)

\* the catch block with the fallback set by background checks as well
CheckSubscriptionFailedAlwaysFallback(r) ==
    /\ r \in subscription.inFlight
    /\ subscription' = [subscription EXCEPT
           !.inFlight = @ \ {r},
           !.error = <<"Failed to check subscription">>,
           !.subscription = Fallback,
           !.initialized = TRUE,
           !.loading = IF r.isBackground THEN @ ELSE FALSE,
           !.last = [step |-> "failed", isBackground |-> r.isBackground,
                     subscription |-> subscription.subscription,
                     loading |-> subscription.loading]]
    /\ UNCHANGED <<engine, notSubscription>>

\* the function answers with an error or the call throws: catch and finally
CheckSubscriptionFailed(r) ==
    /\ r \in subscription.inFlight
    /\ subscription' = [subscription EXCEPT
           !.inFlight = @ \ {r},
           !.error = <<"Failed to check subscription">>,
           !.subscription = IF r.isBackground THEN @ ELSE Fallback,
           !.initialized = TRUE,
           !.loading = IF r.isBackground THEN @ ELSE FALSE,
           !.last = [step |-> "failed", isBackground |-> r.isBackground,
                     subscription |-> subscription.subscription,
                     loading |-> subscription.loading]]
    /\ UNCHANGED <<engine, notSubscription>>

\* the function answers with the firm's status
CheckSubscriptionAnswered(r) ==
    /\ r \in subscription.inFlight
    /\ \E data \in SubscriptionStatuses :
          subscription' = [subscription EXCEPT
              !.inFlight = @ \ {r},
              !.subscription = data,
              !.initialized = TRUE,
              !.loading = IF r.isBackground THEN @ ELSE FALSE,
              !.last = [step |-> "answered", isBackground |-> r.isBackground]]
    /\ UNCHANGED <<engine, notSubscription>>

NextSubscription ==
    \/ CheckOnRender
    \/ CheckOnDemand
    \/ \E r \in [n : 1..MaxChecks, isBackground : BOOLEAN] :
          \/ CheckSubscriptionFailed(r)
          \/ CheckSubscriptionAnswered(r)

SpecSubscription == InitSubscription /\ [][NextSubscription]_vars

----------------------------------------------------------------------------
(* The generation of the WhatsApp QR code *)

\* polls of one generateQR that do not end its loop
MaxPolls == 3

notWhatsapp == <<sessions, enrich, refresh, multiDayAssignments, backend, subscription>>

ConnectionStages == {"initial", "qr-generated", "connected"}

\* what a poll of /api/whatsapp/qr yields: a response, or an exception
QrAnswers ==
    [threw : {FALSE}, ok : BOOLEAN, success : BOOLEAN,
     qrCode : {"", "QR1"}, firmId : {"T1", "T2"}]
    \cup {[threw |-> TRUE]}

\* the component after its initialisation, in any stage
InitWhatsapp ==
    /\ tz = "Asia/Kolkata"
    /\ events = [e \in EventIds |->
                    [id |-> e, title |-> IF e = "E1" THEN "Wedding" ELSE "Pre-Wedding",
                     firm_id |-> "T1", event_date |-> 0,
                     event_end_date |-> << >>, total_days |-> << >>]]
    /\ assignments = [i \in 1..Len(Slots) |-> NoRow]
    /\ call = NoCall
    /\ result = NoResult
    /\ lastWrite = NoWrite
    /\ \E stage \in ConnectionStages, currentFirmId \in {"", "T1"},
          backendUrl \in {"", "url"}, initialLoading \in BOOLEAN :
          whatsapp = [pc |-> "idle", stage |-> stage, qrCode |-> "",
                      isLoading |-> FALSE, currentFirmId |-> currentFirmId,
                      backendUrl |-> backendUrl, initialLoading |-> initialLoading,
                      polls |-> 0, stageBefore |-> stage,
                      last |-> [step |-> "none"]]
    /\ sessions = Off
    /\ enrich = Off
    /\ refresh = Off
    /\ multiDayAssignments = Off
    /\ backend = Off
    /\ subscription = Off

\* the initialisation of the component ends
InitialLoadingDone ==
    /\ whatsapp.pc = "idle"
    /\ whatsapp.initialLoading
    /\ whatsapp' = [whatsapp EXCEPT !.initialLoading = FALSE]
    /\ UNCHANGED <<engine, notWhatsapp>>

\* generateQR up to its first await
generateQR ==
    /\ whatsapp.pc = "idle"
    /\ IF whatsapp.currentFirmId = "" \/ whatsapp.backendUrl = ""
             \/ whatsapp.initialLoading
       THEN whatsapp' = [whatsapp EXCEPT
                !.polls = 0, !.stageBefore = whatsapp.stage,
                !.last = [step |-> "refused"]]
       ELSE whatsapp' = [whatsapp EXCEPT
                !.pc = "generating", !.isLoading = TRUE,
                !.polls = 0, !.stageBefore = whatsapp.stage,
                !.last = [step |-> "started"]]
    /\ UNCHANGED <<engine, notWhatsapp>>

\* the generate-qr request fails, is answered not OK or without success:
\* the outer catch and finally
GenerateRejected ==
    /\ whatsapp.pc = "generating"
    /\ whatsapp' = [whatsapp EXCEPT
           !.pc = "idle", !.isLoading = FALSE,
           !.last = [step |-> "rejected"]]
    /\ UNCHANGED <<engine, notWhatsapp>>

\* the generate-qr request is answered OK with success: the loop starts
GenerateAccepted ==
    /\ whatsapp.pc = "generating"
    /\ whatsapp' = [whatsapp EXCEPT !.pc = "polling", !.last = [step |-> "accepted"]]
    /\ UNCHANGED <<engine, notWhatsapp>>

\* a round of the loop in which an exception of the poll ends generateQR
PollQrAbortingOnException(answer) ==
    /\ whatsapp.pc = "polling"
    /\ IF answer.threw
       THEN whatsapp' = [whatsapp EXCEPT
                !.pc = "idle", !.isLoading = FALSE,
                !.last = [step |-> "aborted", answer |-> answer]]
       ELSE IF answer.ok /\ answer.success /\ answer.qrCode # ""
                /\ answer.firmId = whatsapp.currentFirmId
       THEN whatsapp' = [whatsapp EXCEPT
                !.pc = "idle", !.qrCode = answer.qrCode,
                !.stage = "qr-generated", !.isLoading = FALSE,
                !.last = [step |-> "qr", answer |-> answer]]
       ELSE /\ whatsapp.polls < MaxPolls
            /\ whatsapp' = [whatsapp EXCEPT
                   !.polls = @ + 1,
                   !.last = [step |-> "polled", answer |-> answer]]
    /\ UNCHANGED <<engine, notWhatsapp>>

\* a round of the loop: the poll, and the break with the finally when the
\* answer carries the QR code of the firm
PollQr(answer) ==
    /\ whatsapp.pc = "polling"
    /\ IF answer.threw
       THEN /\ whatsapp.polls < MaxPolls
            /\ whatsapp' = [whatsapp EXCEPT
                   !.polls = @ + 1,
                   !.last = [step |-> "polled", answer |-> answer]]
       ELSE IF answer.ok /\ answer.success /\ answer.qrCode # ""
                /\ answer.firmId = whatsapp.currentFirmId
       THEN whatsapp' = [whatsapp EXCEPT
                !.pc = "idle", !.qrCode = answer.qrCode,
                !.stage = "qr-generated", !.isLoading = FALSE,
                !.last = [step |-> "qr", answer |-> answer]]
       ELSE /\ whatsapp.polls < MaxPolls
            /\ whatsapp' = [whatsapp EXCEPT
                   !.polls = @ + 1,
                   !.last = [step |-> "polled", answer |-> answer]]
    /\ UNCHANGED <<engine, notWhatsapp>>

NextWhatsapp ==
    \/ InitialLoadingDone
    \/ generateQR
    \/ GenerateRejected
    \/ GenerateAccepted
    \/ \E answer \in QrAnswers : PollQr(answer)

SpecWhatsapp == InitWhatsapp /\ [][NextWhatsapp]_vars

----------------------------------------------------------------------------
(* Claims about the engine over the store *)

\* a.start <= b.end /\ b.start <= a.end on calendar days
InclusiveOverlap(a, b) == a.startDate <= b.endDate /\ b.startDate <= a.endDate

\* the derived date range of stored event e (total_days absent: 1)
DerivedRange(e) ==
    calculateEventDateRange(
        [event_date |-> events[e].event_date,
         event_end_date |-> events[e].event_end_date,
         total_days |-> IF events[e].total_days = << >> THEN 1
                        ELSE events[e].total_days[1]])

\* slot i holds an assignment of an event of tenant T other than X whose
\* derived range overlaps R
IsConflict(i, R, X, T) ==
    /\ assignments[i] # NoRow
    /\ events[Slots[i].event_id].firm_id = T
    /\ (X # "" => Slots[i].event_id # X)
    /\ InclusiveOverlap(R, DerivedRange(Slots[i].event_id))

References(i, P) ==
    assignments[i].staff_id = P \/ assignments[i].freelancer_id = P

StoredAssignment(i) ==
    [staff_id |-> assignments[i].staff_id,
     freelancer_id |-> assignments[i].freelancer_id,
     role |-> Slots[i].role,
     day_number |-> Slots[i].day_number,
     day_date |-> events[Slots[i].event_id].event_date,
     event_id |-> Slots[i].event_id]

SlotIds == 1..Len(Slots)

Elems(s) == {s[i] : i \in 1..Len(s)}

RECURSIVE IsSubsequence(_, _)
IsSubsequence(s, t) ==
    IF s = << >> THEN TRUE
    ELSE IF t = << >> THEN FALSE
    ELSE IF Head(s) = Head(t) THEN IsSubsequence(Tail(s), Tail(t))
    ELSE IsSubsequence(s, Tail(t))

Answered(op) == call.op = op /\ call.outcome = "ok" /\ call.firmId # ""

\* C1: getConflictingAssignments(R, X, T), when the query succeeds, returns
\* exactly the stored assignments whose event belongs to T, is not X (X given)
\* and has a derived date range overlapping R: none missing, no other, none
\* twice.
C1_ConflictingAssignmentsExact ==
    Answered("getConflictingAssignments") =>
        LET conflicts == {i \in SlotIds : IsConflict(i, call.dateRange,
                                              call.excludeEventId, call.firmId)}
        IN  /\ Elems(result) = {StoredAssignment(i) : i \in conflicts}
            /\ Len(result) = Cardinality(conflicts)

\* a call for T1 excluding E2 that returns E1's overlapping assignment while
\* E2 holds one too
C1_Witness ==
    /\ Answered("getConflictingAssignments")
    /\ call.firmId = "T1"
    /\ call.excludeEventId = "E2"
    /\ assignments[2] # NoRow
    /\ InclusiveOverlap(call.dateRange, DerivedRange("E2"))
    /\ events["E2"].firm_id = "T1"
    /\ Len(result) = 1
    /\ result[1].event_id = "E1"

C3_AvailableIffNoConflict ==
    (Answered("isPersonAvailable") /\ call.personId # "") =>
        (result = ~ \E i \in SlotIds :
                        /\ IsConflict(i, call.dateRange, call.excludeEventId,
                                      call.firmId)
                        /\ References(i, call.personId))

\* P2 is referenced as freelancer by a conflicting assignment and is reported
\* unavailable
C3_Witness ==
    /\ Answered("isPersonAvailable")
    /\ call.personId = "P2"
    /\ \E i \in SlotIds :
          /\ IsConflict(i, call.dateRange, call.excludeEventId, call.firmId)
          /\ assignments[i].freelancer_id = "P2"
    /\ result = FALSE

\* C4: filterAvailablePeople(people, R, X, T) returns exactly the members of
\* people that no conflicting assignment references as staff or freelancer.
C4_FilterKeepsExactlyTheFree ==
    Answered("filterAvailablePeople") =>
        /\ Elems(result) \subseteq Elems(call.people)
        /\ \A p \in Elems(call.people) :
              p \in Elems(result) <=>
                  ~ \E i \in SlotIds :
                        /\ IsConflict(i, call.dateRange, call.excludeEventId,
                                      call.firmId)
                        /\ References(i, p)

\* [P1, P2, P3] where only P2 has a conflicting assignment yields [P1, P3]
C4_Witness ==
    /\ Answered("filterAvailablePeople")
    /\ call.people = <<"P1", "P2", "P3">>
    /\ \E i \in SlotIds :
          /\ IsConflict(i, call.dateRange, call.excludeEventId, call.firmId)
          /\ References(i, "P2")
    /\ \E i \in SlotIds : References(i, "P1")
    /\ result = <<"P1", "P3">>

\* C5: the output of filterAvailablePeople is a subsequence of its input
\* (same relative order, nothing added, nothing duplicated), whatever the
\* store holds and whether or not the query succeeds.
C5_FilterIsSubsequence ==
    call.op = "filterAvailablePeople" =>
        /\ IsSubsequence(result, call.people)
        /\ \A p \in Elems(result) :
              Cardinality({k \in 1..Len(result) : result[k] = p})
                  <= Cardinality({k \in 1..Len(call.people) : call.people[k] = p})

\* [P2, P1, P2] with P1 booked yields [P2, P2]
C5_Witness ==
    /\ call.op = "filterAvailablePeople"
    /\ call.outcome = "ok"
    /\ call.people = <<"P2", "P1", "P2">>
    /\ result = <<"P2", "P2">>

----------------------------------------------------------------------------
(* Claims about datesOverlap *)

WellFormed(r) == r.startDate <= r.endDate

\* C6: for well-formed inclusive ranges a, b, datesOverlap(a, b) is
\* a.start <= b.end /\ b.start <= a.end, i.e. not (a.end < b.start or
\* b.end < a.start), on calendar days.
C6_OverlapIsIntervalIntersection ==
    (call.op = "datesOverlap" /\ WellFormed(call.range1) /\ WellFormed(call.range2))
        => /\ result = (/\ call.range1.startDate <= call.range2.endDate
                        /\ call.range2.startDate <= call.range1.endDate)
           /\ result = ~(\/ call.range1.endDate < call.range2.startDate
                         \/ call.range2.endDate < call.range1.startDate)

\* a call where the first range strictly covers the second
C6_Witness ==
    /\ call.op = "datesOverlap"
    /\ call.range1.startDate < call.range2.startDate
    /\ call.range2.startDate <= call.range2.endDate
    /\ call.range2.endDate < call.range1.endDate
    /\ result = TRUE

\* C7: datesOverlap(A, B) = datesOverlap(B, A) for all ranges, whatever the
\* order of their start and end.
C7_OverlapSymmetric ==
    call.op = "datesOverlap" => result = datesOverlap(call.range2, call.range1)

\* a call with an inverted first range that overlaps the second only through
\* the fourth clause
C7_Witness ==
    /\ call.op = "datesOverlap"
    /\ call.range1.startDate > call.range1.endDate
    /\ call.range2.startDate < call.range1.endDate
    /\ call.range2.endDate > call.range1.startDate
    /\ result = TRUE

\* C8: datesOverlap(A, A) is true for every range A.
C8_OverlapReflexive ==
    (call.op = "datesOverlap" /\ call.range1 = call.range2) => result = TRUE

\* a call of datesOverlap(A, A) with A inverted (start after end)
C8_Witness ==
    /\ call.op = "datesOverlap"
    /\ call.range1 = call.range2
    /\ call.range1.startDate > call.range1.endDate
    /\ result = TRUE

----------------------------------------------------------------------------
(* Claims about calculateEventDateRange *)

\* C9: startDate is the event's start date; endDate is the explicit end date
\* when one is present (whatever total_days is), otherwise the start date
\* plus (total_days - 1) days.
C9_DerivedRange ==
    call.op = "calculateEventDateRange" =>
        /\ result.startDate = call.eventInfo.event_date
        /\ result.endDate =
              IF call.eventInfo.event_end_date # << >>
              THEN call.eventInfo.event_end_date[1]
              ELSE call.eventInfo.event_date + (call.eventInfo.total_days - 1)

\* C10: for every event input the returned range has endDate >= startDate.
C10_EndNotBeforeStart ==
    call.op = "calculateEventDateRange" => result.endDate >= result.startDate

----------------------------------------------------------------------------
(* Claims about day counts, exclusion, details, failures and state *)

SingleDay(e) == [startDate |-> events[e].event_date, endDate |-> events[e].event_date]

\* stored event e has no explicit end and a total_days in the given set of
\* malformed values (<< >> stands for null)
MalformedDays(e, values) ==
    /\ events[e].event_end_date = << >>
    /\ events[e].total_days \in values

NullOrZero == {<< >>, <<0>>}

NonPositive == {<< >>} \cup {<<n>> : n \in (0 - 1)..0}

NormalisedTo1(values) ==
    /\ (call.op = "getConflictingAssignments" /\ call.excludeEventId = ""
            /\ MalformedDays("E1", values))
        => ((Len(result) = 1) <=> InclusiveOverlap(call.dateRange, SingleDay("E1")))
    /\ (call.op = "getPersonConflictDetails" /\ call.excludeEventId = ""
            /\ MalformedDays("E1", values))
        => /\ result.hasConflict <=> InclusiveOverlap(call.dateRange, SingleDay("E1"))
           /\ \A k \in 1..Len(result.conflictingEvents) :
                 result.conflictingEvents[k].dateRange = SingleDay("E1")
    /\ (call.op = "checkPersonAvailability" /\ call.totalDays = << >>)
        => call.dateRange = [startDate |-> call.eventDate, endDate |-> call.eventDate]

\* C11: a stored event without an explicit end date whose total_days is null,
\* 0 or negative counts in getConflictingAssignments and
\* getPersonConflictDetails as the single day [start, start], and the hook
\* derives [eventDate, eventDate] when totalDays is not supplied.
C11_MalformedDayCountsNormalised == NormalisedTo1(NonPositive)

\* what the code does normalise: null and 0
C11_NullOrZeroNormalised == NormalisedTo1(NullOrZero)

\* the conflicting assignments of the recorded call, had it excluded no event
Unexcluded ==
    getConflictingAssignments(call.dateRange, "", call.firmId, call.outcome)

NotOfExcluded(event_id) == event_id # call.excludeEventId

\* C12: with excludeEventId = X no assignment of event X is returned by
\* getConflictingAssignments, makes isPersonAvailable false, removes a person
\* in filterAvailablePeople or is listed by getPersonConflictDetails, and the
\* assignments of every other event count exactly as without exclusion.
C12_SelfExclusion ==
    /\ call.op = "getConflictingAssignments" =>
          /\ \A k \in 1..Len(result) : result[k].event_id # call.excludeEventId
          /\ result = SelectSeq(Unexcluded, LAMBDA a : NotOfExcluded(a.event_id))
    /\ (call.op = "isPersonAvailable" /\ call.personId # "") =>
          (result <=> ~ \E k \in 1..Len(Unexcluded) :
                          /\ NotOfExcluded(Unexcluded[k].event_id)
                          /\ call.personId \in {Unexcluded[k].staff_id,
                                                Unexcluded[k].freelancer_id})
    /\ (call.op = "filterAvailablePeople" /\ Len(call.people) > 0) =>
          result = SelectSeq(call.people,
                     LAMBDA p : ~ \E k \in 1..Len(Unexcluded) :
                          /\ NotOfExcluded(Unexcluded[k].event_id)
                          /\ p \in {Unexcluded[k].staff_id,
                                    Unexcluded[k].freelancer_id})
    /\ (call.op = "getPersonConflictDetails" /\ call.personId # "") =>
          /\ \A k \in 1..Len(result.conflictingEvents) :
                result.conflictingEvents[k].eventId # call.excludeEventId
          /\ result.conflictingEvents =
                SelectSeq(getPersonConflictDetails(call.personId, call.dateRange,
                              "", call.firmId, call.outcome).conflictingEvents,
                          LAMBDA c : NotOfExcluded(c.eventId))

\* P is booked on the excluded event only, and is available
C12_Witness ==
    /\ call.op = "isPersonAvailable"
    /\ call.outcome = "ok"
    /\ call.excludeEventId = "E1"
    /\ References(1, call.personId)
    /\ IsConflict(1, call.dateRange, "", call.firmId)
    /\ ~ References(2, call.personId)
    /\ assignments[2] # NoRow
    /\ result = TRUE

\* the slots whose assignment is a booking of P in the way of the recorded call
Bookings(P) ==
    {i \in SlotIds : /\ IsConflict(i, call.dateRange, call.excludeEventId, call.firmId)
                     /\ References(i, P)}

\* the entry getPersonConflictDetails is to list for slot i
BookingEntry(i) ==
    [eventId |-> Slots[i].event_id,
     eventTitle |-> events[Slots[i].event_id].title,
     role |-> Slots[i].role,
     dateRange |-> DerivedRange(Slots[i].event_id)]

\* C13: getPersonConflictDetails(P, R, X, T) lists exactly one entry (event
\* id, title, role, derived range of the event) per assignment of an event of
\* tenant T other than X that references P and overlaps R, and hasConflict is
\* true exactly if the list is not empty.
C13_DetailsListEveryBooking ==
    (Answered("getPersonConflictDetails") /\ call.personId # "") =>
        /\ Elems(result.conflictingEvents) =
              {BookingEntry(i) : i \in Bookings(call.personId)}
        /\ Len(result.conflictingEvents) = Cardinality(Bookings(call.personId))
        /\ result.hasConflict <=> Len(result.conflictingEvents) > 0

\* P is booked on both events, one of them a two-day event
C13_Witness ==
    /\ Answered("getPersonConflictDetails")
    /\ Len(result.conflictingEvents) = 2
    /\ result.hasConflict
    /\ events["E2"].total_days = <<2>>
    /\ assignments[1].staff_id = call.personId
    /\ assignments[2].freelancer_id = call.personId

Unassigned(P) == \A i \in SlotIds : ~ References(i, P)

\* C14: for a person no stored assignment references, and also when
\* excludeEventId matches no event, isPersonAvailable returns true and
\* getPersonConflictDetails returns no conflict with an empty list, whatever
\* the range, the tenant and the outcome of the query.
C14_AbsenceMeansNoConflict ==
    /\ (call.op = "isPersonAvailable" /\ call.personId # ""
            /\ Unassigned(call.personId))
        => result = TRUE
    /\ (call.op = "getPersonConflictDetails" /\ call.personId # ""
            /\ Unassigned(call.personId))
        => result = [hasConflict |-> FALSE, conflictingEvents |-> << >>]

\* another person is booked in the range asked for, the excluded id matches
\* no event
C14_Witness ==
    /\ Answered("isPersonAvailable")
    /\ call.personId # ""
    /\ Unassigned(call.personId)
    /\ call.excludeEventId = "E9"
    /\ \E i \in SlotIds : IsConflict(i, call.dateRange, "", call.firmId)
    /\ result = TRUE

\* C15: isPersonAvailable with an empty personId returns true and
\* getPersonConflictDetails with an empty personId returns no conflict, and
\* neither call issues a query to the store.
C15_EmptyPersonAlwaysAvailable ==
    /\ (call.op = "isPersonAvailable" /\ call.personId = "")
        => (result = TRUE /\ call.outcome = "none")
    /\ (call.op = "getPersonConflictDetails" /\ call.personId = "")
        => /\ result.hasConflict = FALSE
           /\ result.conflictingEvents = << >>
           /\ call.outcome = "none"

\* the store holds a row in the range asked for whose freelancer column is
\* empty
C15_Witness ==
    /\ call.op = "isPersonAvailable"
    /\ call.personId = ""
    /\ call.firmId # ""
    /\ \E i \in SlotIds : /\ IsConflict(i, call.dateRange, call.excludeEventId,
                                        call.firmId)
                          /\ assignments[i].freelancer_id = ""
    /\ result = TRUE

\* the person columns of the stored rows in the way of the recorded call
ConflictRefs(column) ==
    {assignments[i][column] :
        i \in {j \in SlotIds : IsConflict(j, call.dateRange, call.excludeEventId,
                                          call.firmId)}} \ {""}

\* C16: an overlapping assignment that references P through freelancer_id
\* makes P unavailable exactly as one that references P through staff_id:
\* isPersonAvailable is false, filterAvailablePeople removes P and
\* getPersonConflictDetails lists the assignment.
C16_OneConflictNamespace ==
    \A column \in {"staff_id", "freelancer_id"} :
        /\ (Answered("isPersonAvailable") /\ call.personId \in ConflictRefs(column))
            => result = FALSE
        /\ Answered("filterAvailablePeople")
            => Elems(result) \cap ConflictRefs(column) = {}
        /\ (Answered("getPersonConflictDetails")
                /\ call.personId \in ConflictRefs(column))
            => /\ result.hasConflict
               /\ \A i \in Bookings(call.personId) :
                     assignments[i][column] = call.personId
                        => BookingEntry(i) \in Elems(result.conflictingEvents)

\* one candidate is booked as staff, the other as freelancer: both are removed
C16_Witness ==
    /\ Answered("filterAvailablePeople")
    /\ call.people = <<"P1", "P2", "P3">>
    /\ "P1" \in ConflictRefs("staff_id")
    /\ "P2" \in ConflictRefs("freelancer_id")
    /\ result = <<"P3">>

Failed == call.outcome \in {"error", "throw"}

\* C17: when the query to the store fails, by an error result or by an
\* exception, getConflictingAssignments returns the empty list,
\* isPersonAvailable returns true, filterAvailablePeople returns the whole
\* input list and getPersonConflictDetails returns no conflict: the caller
\* gets a value, never the failure.
C17_FailOpen ==
    /\ (call.op = "getConflictingAssignments" /\ Failed) => result = << >>
    /\ (call.op = "isPersonAvailable" /\ Failed) => result = TRUE
    /\ (call.op = "filterAvailablePeople" /\ Failed) => result = call.people
    /\ (call.op = "getPersonConflictDetails" /\ Failed)
        => result = [hasConflict |-> FALSE, conflictingEvents |-> << >>]

\* the person asked for is booked in the range, and the query throws
C17_Witness ==
    /\ call.op = "isPersonAvailable"
    /\ call.outcome = "throw"
    /\ call.firmId # ""
    /\ Bookings(call.personId) # {}
    /\ result = TRUE

\* the hook's checkPersonAvailability hands on what isPersonAvailable returns
C17_HookFailsOpen ==
    (call.op = "checkPersonAvailability" /\ Failed) => result = TRUE

\* C18: no call of the engine changes a stored event or assignment: every
\* step that starts a call or hands its result to the caller leaves the
\* tables as they were.
C18_EngineIsReadOnly ==
    [][call' # call => (events' = events /\ assignments' = assignments)]_vars

\* a call that excluded event E1 was answered, and the row of E1 is still
\* stored
C18_Witness ==
    /\ Answered("getConflictingAssignments")
    /\ call.excludeEventId = "E1"
    /\ assignments[1] # NoRow
    /\ Len(result) = 1

----------------------------------------------------------------------------
(* Claims about repeated calls and calls between writes *)

WrittenFor(kind, P) ==
    /\ lastWrite.kind = kind
    /\ P \in {lastWrite.row.staff_id, lastWrite.row.freelancer_id}

\* C20: the result of every answered isPersonAvailable is computed from the
\* store as it is at that call: when the last write committed an assignment
\* for P that overlaps the range asked for, the call returns false; when the
\* last write deleted the only such assignment, it returns true; in general
\* the result is false exactly if the store now holds a booking of P.
C20_NoCaching ==
    (call.op \in {"isPersonAvailable", "isPersonAvailableAgain"}
        /\ call.outcome = "ok") =>
        /\ (WrittenFor("save", call.personId)
                /\ lastWrite.slot \in Bookings(call.personId))
            => result = FALSE
        /\ (WrittenFor("delete", call.personId) /\ Bookings(call.personId) = {})
            => result = TRUE
        /\ result <=> Bookings(call.personId) = {}

\* the only booking of P was deleted just before the call: P is available
C20_Witness ==
    /\ call.op = "isPersonAvailable"
    /\ call.outcome = "ok"
    /\ WrittenFor("delete", call.personId)
    /\ assignments[lastWrite.slot] = NoRow
    /\ InclusiveOverlap(call.dateRange, DerivedRange(Slots[lastWrite.slot].event_id))
    /\ events[Slots[lastWrite.slot].event_id].firm_id = call.firmId
    /\ Slots[lastWrite.slot].event_id # call.excludeEventId
    /\ \E i \in SlotIds : assignments[i] # NoRow
    /\ result = TRUE

----------------------------------------------------------------------------
(* Claims about sessions *)

\* C21: the check reserves nothing and the save checks nothing: a session
\* that was told its person is available can save, whatever the other
\* session has saved since.
C21_NoMutualExclusion ==
    \A s \in SessionIds :
        (sessions[s].pc = "checked" /\ sessions[s].saw) => ENABLED SessionSave(s)

\* both sessions were answered that P is available, both saved: P is assigned
\* to two overlapping events of one tenant
C21_Witness ==
    /\ \A s \in SessionIds : /\ sessions[s].pc = "saved"
                             /\ sessions[s].outcome = "ok"
                             /\ sessions[s].saw
    /\ sessions["S1"].personId = sessions["S2"].personId
    /\ assignments[1].staff_id = sessions["S1"].personId
    /\ assignments[2].staff_id = sessions["S1"].personId
    /\ events["E1"].firm_id = events["E2"].firm_id
    /\ InclusiveOverlap(DerivedRange("E1"), DerivedRange("E2"))

----------------------------------------------------------------------------
(* Claims about the endpoints of ranges *)

\* the stored event E1 spans the days [d, d + 2]: by its explicit end date,
\* or by total_days = 3
SpansThreeDays(d) ==
    /\ events["E1"].event_date = d
    /\ \/ events["E1"].event_end_date = <<d + 2>>
       \/ (events["E1"].event_end_date = << >> /\ events["E1"].total_days = <<3>>)

InclusiveEndpoints(zones) ==
    \A d \in Days :
        (tz \in zones /\ SpansThreeDays(d) /\ call.op = "isPersonAvailable") =>
            /\ (call.excludeEventId = ""
                    /\ call.dateRange = [startDate |-> d + 2, endDate |-> d + 4])
                => result = FALSE
            /\ (call.excludeEventId = "E1"
                    /\ call.dateRange = [startDate |-> d + 3, endDate |-> d + 4])
                => result = TRUE

\* C22: when P has an assignment in event E1 of tenant T spanning the days
\* [d, d + 2], isPersonAvailable(P, [d + 2, d + 4], T) is false, and
\* isPersonAvailable(P, [d + 3, d + 4], T) with excludeEventId = E1 is true
\* (P has no other assignment).
C22_InclusiveEndpoints == InclusiveEndpoints(Zones)

\* the same where local time has no daylight-saving change
C22_InclusiveEndpointsWithoutDst == InclusiveEndpoints({"Asia/Kolkata"})

----------------------------------------------------------------------------
(* Claims about the hook's lists *)

\* the staff of the recorded call who are booked in the range of the hook
BookedStaff ==
    {p \in Elems(call.staff) :
        \E i \in SlotIds :
            /\ IsConflict(i, [startDate |-> call.eventDate[1],
                              endDate |-> call.eventDate[1]],
                          call.excludeEventId, call.firmId)
            /\ References(i, p)}

----------------------------------------------------------------------------
(* Claims about the agreement of the two checks *)

FilterAgreesWithCheck ==
    (call.op = "isPersonAvailable" /\ "filtered" \in DOMAIN call) =>
        (result <=> \E i \in 1..Len(call.filtered) : call.filtered[i] = call.personId)

\* every stored row sets exactly one of staff_id and freelancer_id
ExclusiveRows ==
    \A i \in SlotIds : assignments[i] \in PersonRefs \cup {NoRow}

\* C24: over rows with staff_id, freelancer_id or both set, a person of the
\* list is in the result of filterAvailablePeople exactly if isPersonAvailable
\* with the same arguments is true for that person.
C24_FilterAgreesWithCheck == FilterAgreesWithCheck

\* the same over rows that set exactly one of the two columns
C24_AgreeOnExclusiveRows == ExclusiveRows => FilterAgreesWithCheck

----------------------------------------------------------------------------
(* Claims about enrichStaffWithAvailability *)

\* C25: the entry of every person has conflicts exactly if isAvailable is
\* false, and an entry with isAvailable false carries hasConflict true and a
\* non-empty list of conflicting events, whatever is written to the store and
\* whether the store fails between the two reads.
C25_EnrichedEntryConsistent ==
    enrich.pc = "done" =>
        /\ (enrich.conflicts # << >>) <=> ~ enrich.isAvailable
        /\ ~ enrich.isAvailable =>
              /\ enrich.conflicts[1].hasConflict
              /\ Len(enrich.conflicts[1].conflictingEvents) > 0

\* what holds of every entry
C25_ConflictsIffUnavailable ==
    enrich.pc = "done" => ((enrich.conflicts # << >>) <=> ~ enrich.isAvailable)


\* the lists updateAvailableStaff computes for the form's current inputs
ListsForCurrentInputs ==
    IF refresh.eventDate = << >> THEN {Pools}
    ELSE {FilteredPools(refresh.eventDate[1], outcome) : outcome \in Outcomes}

\* C26: once every refresh has completed, the displayed available lists are
\* the ones computed for the latest inputs, whatever the order of the answers
C26_LatestInputsDisplayed ==
    refresh.inFlight = {} => refresh.available \in ListsForCurrentInputs

\* what the code keeps: the displayed lists are those of some inputs
C26_DisplayedForSomeInputs ==
    \/ refresh.available = Pools
    \/ \E d \in EventDays, outcome \in Outcomes :
          refresh.available = FilteredPools(d, outcome)


\* the person is selected in a slot of the form other than s, or in the
\* legacy list of same-day editors
SelectedElsewhere(person, s) ==
    \/ \E t \in FormSlots(multiDayAssignments.days) \ {s} :
          SelectionOf(multiDayAssignments.days, t.dayIndex, t.role, t.slotIndex) = person
    \/ Includes(multiDayAssignments.legacySameDayEditors, person)

\* the person is selected in a slot of another day, in another slot of the
\* role of s on its day, or in the legacy list
SelectedOnOtherDayOrInRole(person, s) ==
    \/ \E t \in FormSlots(multiDayAssignments.days) \ {s} :
          /\ t.dayIndex # s.dayIndex \/ t.role = s.role
          /\ SelectionOf(multiDayAssignments.days, t.dayIndex, t.role, t.slotIndex) = person
    \/ Includes(multiDayAssignments.legacySameDayEditors, person)

OptionsOf(s) ==
    staffOptions(multiDayAssignments.days, multiDayAssignments.legacySameDayEditors,
                 s.dayIndex, s.role, s.slotIndex)

\* C27: the options of a slot never contain a person selected in a different
\* slot of the event (any other day, any other role on the same day, the
\* legacy list), other than the slot's own current selection
C27_NoOptionSelectedElsewhere ==
    \A s \in FormSlots(multiDayAssignments.days) :
        \A person \in {FormPool[i] : i \in 1..Len(FormPool)} :
            (/\ Includes(OptionsOf(s), person)
             /\ person # SelectionOf(multiDayAssignments.days, s.dayIndex, s.role, s.slotIndex))
            => ~ SelectedElsewhere(person, s)

\* what the code keeps for the slots of photographers, cinematographers and
\* same-day editors: other days, the slot's own role and the legacy list
C27_NoOptionSelectedOnOtherDayOrInRole ==
    \A s \in FormSlots(multiDayAssignments.days) :
        \A person \in {FormPool[i] : i \in 1..Len(FormPool)} :
            (/\ Includes(OptionsOf(s), person)
             /\ person # SelectionOf(multiDayAssignments.days, s.dayIndex, s.role, s.slotIndex))
            => ~ SelectedOnOtherDayOrInRole(person, s)


\* the rows of the list come from fetches under the current settings, each
\* page at most once and in page order
InPageOrder(data, settings) ==
    /\ \A i \in 1..Len(data) : data[i].settings = settings
    /\ \A i, j \in 1..Len(data) : i < j => data[i].page < data[j].page

\* C28: after any sequence of settings changes, loadMore calls and fetch
\* completions the list holds only rows fetched under the current settings,
\* each page at most once and in page order; an answer to a fetch issued
\* before the last reset is never appended or substituted
C28_OnlyCurrentRowsInPageOrder ==
    backend.inFlight = {} => InPageOrder(backend.data, backend.settings)

\* the part of C28 about loadMore: the page advances only when the hook is
\* neither loading nor done
C28_LoadMoreGuarded ==
    [][backend'.currentPage > backend.currentPage
          => ~ backend.loading /\ ~ backend.allDataLoaded]_vars


\* C29: a failed foreground check leaves the active fallback (canWrite true)
\* and an error; a failed background check leaves the known subscription and
\* the loading flag as they were and sets only the error; both leave
\* initialized true; a check without user or firm leaves subscription null
\* and canWrite false
C29_FailOpenInForegroundOnly ==
    /\ (subscription.last.step = "failed" /\ ~ subscription.last.isBackground) =>
          /\ subscription.subscription = Fallback
          /\ subscription.subscription.status = "active"
          /\ subscription.subscription.subscribedOnce
          /\ canWrite(subscription.subscription)
          /\ subscription.error # << >>
          /\ subscription.initialized
    /\ (subscription.last.step = "failed" /\ subscription.last.isBackground) =>
          /\ subscription.subscription = subscription.last.subscription
          /\ subscription.loading = subscription.last.loading
          /\ subscription.error # << >>
          /\ subscription.initialized
    /\ subscription.last.step = "absent" =>
          /\ subscription.subscription = Null
          /\ ~ canWrite(subscription.subscription)
          /\ subscription.initialized

\* a background check failed while the firm's known status was expired and a
\* foreground check was loading
C29_Witness ==
    /\ subscription.last.step = "failed"
    /\ subscription.last.isBackground
    /\ subscription.subscription # Null
    /\ ~ canWrite(subscription.subscription)
    /\ subscription.loading

\* a foreground check failed after the firm's status was known as expired
C29_WitnessForeground ==
    /\ subscription.last.step = "failed"
    /\ ~ subscription.last.isBackground
    /\ subscription.last.subscription # Null
    /\ ~ canWrite(subscription.last.subscription)


\* the QR endpoint answered OK with success, a QR code and the current firm
QrOfCurrentFirm(answer) ==
    /\ ~ answer.threw
    /\ answer.ok
    /\ answer.success
    /\ answer.qrCode = "QR1"
    /\ answer.firmId = whatsapp.currentFirmId

\* C30: once generate-qr was accepted, generateQR leaves its loop only on an
\* answer that is OK with success, a QR code and the current firm; until
\* then it keeps loading with the stage unchanged, whatever the polls
\* yield; then the stage is 'qr-generated' and isLoading is false; a
\* rejected generate-qr ends with isLoading false and the stage unchanged
C30_LoopEndsOnlyOnQr ==
    /\ whatsapp.pc = "polling" =>
          /\ whatsapp.isLoading
          /\ whatsapp.stage = whatsapp.stageBefore
    /\ (whatsapp.pc = "idle"
            /\ whatsapp.last.step \notin {"none", "refused", "rejected"}) =>
          /\ whatsapp.last.step = "qr"
          /\ QrOfCurrentFirm(whatsapp.last.answer)
          /\ whatsapp.qrCode = whatsapp.last.answer.qrCode
          /\ whatsapp.stage = "qr-generated"
          /\ ~ whatsapp.isLoading
    /\ whatsapp.last.step = "rejected" =>
          /\ whatsapp.pc = "idle"
          /\ ~ whatsapp.isLoading
          /\ whatsapp.stage = whatsapp.stageBefore

\* the loop is still running after MaxPolls polls that threw or did not
\* carry the QR code of the firm
C30_Witness ==
    /\ whatsapp.pc = "polling"
    /\ whatsapp.polls = MaxPolls
    /\ whatsapp.last.step = "polled"
    /\ whatsapp.last.answer.threw

\* the loop ended on the QR code after polls that did not end it
C30_WitnessEnded ==
    /\ whatsapp.pc = "idle"
    /\ whatsapp.last.step = "qr"
    /\ whatsapp.polls > 0
    /\ whatsapp.stageBefore = "initial"

====
